---------------------------- MODULE Spec2Model ----------------------------
(***************************************************************************)
(* A model of ttgrind: the Tru-Tech program writer (ttwriter.py), the      *)
(* move-list replay TTWriter.getSimProgram, the rough plunge generator     *)
(* (ttpathgen.py), the per-family program emitters of ttwidget.py, the     *)
(* checkGeometry gates of tttooldef.py, the linear and angle dimensions    *)
(* of dim/dimension.py, the Arc of arc.py, the Path2d of path2d.py,        *)
(* algo.linesCollinear, TTToolDef.config and the GrindAnim of              *)
(* grindanim.py.                                                           *)
(*                                                                         *)
(* Numbers.  Lengths and feeds are integers counting 1e-4 inch (0.045 is   *)
(* 450, 1.5 is 15000); every such quantity is printed exactly by "%.5f".   *)
(* Angles are whole degrees.  Python's True/False are the ints 1/0, as in  *)
(* Python itself ("%d" % True is "1").  Text written with "%d" (Order,     *)
(* MOVEINDEX) is a sequence of decimal digits.  Float rounding below       *)
(* 1e-4 inch is outside the model.                                         *)
(***************************************************************************)
EXTENDS Integers, Sequences, FiniteSets, TLC

VARIABLES
    orderNumber,   \* TTWriter.orderNumber
    prog,          \* the MOVE nodes under BUILDERSCRIPTS, in document order
    simStatus,     \* getSimProgram call: idle / running / returned / <exception>
    simIdx,        \* number of nodes the replay loop has consumed
    blankDia,      \* argument of getSimProgram
    x,             \* tracked position, local of getSimProgram
    y,
    order,         \* last Order seen, local of getSimProgram
    outProg,       \* record list under construction, local of getSimProgram
    ret,           \* value handed back to the caller (None until a return)
    grindType,     \* TTWidget.cboGrindType.currentIndex()
    toolSpecs,     \* specs of the tool definition shown in the tool view
    grind,         \* txtWheelWid, txtWheelOverlap (percent), txtBackTaper
    feeds,         \* txtPlungeFeed, txtSeg1Feed, txtSeg2Feed, txtSeg3Feed
    invalidEdit,   \* the edit box whose text is not valid, or "none"
    simChecked,    \* butSimulate.isChecked()
    enabled,       \* the widget's labels, combos, edits, butWrite enabled
    out,           \* outcome of the last onWriteProgram / onSimulate
    gpArgs,        \* <<specs, elements, i, startZ>> of a getPlungePoints call
    gpResult,      \* <<its outcome>>, <<>> before the call
    cgArgs,        \* <<family, field, value>> of a checkGeometry call
    cgResult,      \* <<its outcome>>, <<>> before the call
    dim,           \* a LinearDim or an AngleDim object
    arc,           \* an Arc object and the last call made for it
    path,          \* a Path2d object, the last call made for it and its result
    lc,            \* a linesCollinear call: its two segments and its result
    tdef,          \* a TTToolDef object: its specs and its profile
    anim           \* a GrindAnim object

writerVars == <<orderNumber, prog>>
simVars == <<simStatus, simIdx, blankDia, x, y, order, outProg, ret>>
widgetVars == <<grindType, toolSpecs, grind, feeds, invalidEdit, simChecked,
                enabled, out>>
plungeVars == <<gpArgs, gpResult>>
kernelVars == <<cgArgs, cgResult, dim, arc>>
extraVars == <<path, lc, tdef, anim>>
vars == <<orderNumber, prog, simStatus, simIdx, blankDia, x, y, order,
          outProg, ret, grindType, toolSpecs, grind, feeds, invalidEdit,
          simChecked, enabled, out, gpArgs, gpResult, cgArgs, cgResult, dim,
          arc, path, lc, tdef, anim>>

(***************************************************************************)
(* Bounds of the model.                                                    *)
(***************************************************************************)
MaxMoves == 3       \* longest program the writer builds in Spec
MaxDemoMoves == 4   \* longest program in SpecDemo
MaxOrder == 3       \* largest Order attribute in SpecOrder

None == "None"

(***************************************************************************)
(* Arithmetic helpers.                                                     *)
(***************************************************************************)
Abs(n) == IF n < 0 THEN -n ELSE n

\* a / b rounded to the nearest integer (b # 0), the model's float division
RoundDiv(a, b) ==
    LET s == IF (a < 0) = (b < 0) THEN 1 ELSE -1
    IN s * ((2 * Abs(a) + Abs(b)) \div (2 * Abs(b)))

\* math.ceil(a / b) for b > 0
CeilDiv(a, b) == -((-a) \div b)

\* 1000 * math.tan(math.radians(a)) for the angles the model uses; 90 degrees
\* stands for Python's 1.6e16, handled where it is used
TanMilli(a) ==
    CASE a = 0 -> 0
      [] a = 30 -> 577
      [] a = 45 -> 1000
      [] a = 59 -> 1664
      [] a = 60 -> 1732

\* v / tan(radians(a)), a > 0: below the model's resolution at 90 degrees
DivTan(v, a) == IF a = 90 THEN 0 ELSE RoundDiv(v * 1000, TanMilli(a))

\* v * tan(radians(a)), a < 90
MulTan(v, a) == RoundDiv(v * TanMilli(a), 1000)

(***************************************************************************)
(* "%d" % n and int(text).                                                 *)
(***************************************************************************)
RECURSIVE FmtD(_)
FmtD(n) == IF n < 10 THEN <<n>> ELSE Append(FmtD(n \div 10), n % 10)

RECURSIVE ParseInt(_)
ParseInt(s) ==
    IF Len(s) = 0 THEN 0
    ELSE 10 * ParseInt(SubSeq(s, 1, Len(s) - 1)) + s[Len(s)]


(***************************************************************************)
(* TTWriter.  A writer object is [orderNumber, prog]; a MOVE node is       *)
(* [Id, Order, MOVEINDEX, Variables], Variables mapping each ID of the     *)
(* node to its VALUE text.  A VALUE written with "%.5f" is held as the     *)
(* count of 1e-5 it prints, one written with "%d" as the integer.          *)
(***************************************************************************)
DEFAULT_AXIS_2_BACKLASH == 450
DEFAULT_REPOSITION_VELOCITY == 50000

integerIds == {"RETURN_TO_NEG", "NUMBER_LOOPS", "AXIS_2_RETURN",
               "PROGRAM_LOOPS", "TRAVERSE_AXIS_3"}

mergeDicts(d1, d2) ==
    [k \in (DOMAIN d1) \cup (DOMAIN d2) |->
        IF k \in DOMAIN d2 THEN d2[k] ELSE d1[k]]

\* valueNode.text = "%d" % v  or  "%.5f" % v
FmtValue(id, v) == IF id \in integerIds THEN v ELSE 10 * v

\* float(valueNode.text)
ParseValue(id, t) == IF id \in integerIds THEN t ELSE RoundDiv(t, 10)

\* the default dict dd of each append method
rollerOnDefaults ==
    [PLUNGE_DEPTH |-> 0, PROGRAM_LOOPS |-> 1, FINAL_PLUNGE |-> 0,
     TRAVERSE_AXIS_3 |-> 0]
rapidInDefaults ==
    [ABOVE_PART |-> 100, RAPID_DOWN_TO |-> 0, RAPID_IN_TO |-> 0,
     RAPID_DOWN_VELOCITY |-> 5000, AXIS2_BACKLASH |-> DEFAULT_AXIS_2_BACKLASH]
axisOneDefaults ==
    [PLUNGE_TO |-> 0, VELOCITY_AXIS1 |-> 500, RETURN_TO_NEG |-> 1,
     NEG_POSITION |-> 100]
axisTwoOutDefaults ==
    [MOVE_OUT_TO |-> 0, VELOCITY_AXIS2 |-> 20000]
axisTwoInDefaults ==
    [MOVE_IN_TO |-> 0, VELOCITY_AXIS2 |-> 50000,
     AXIS2_BACKLASH |-> DEFAULT_AXIS_2_BACKLASH]
ccwRadiusDefaults ==
    [RADIUS_VALUE |-> 100, START_PERCENT |-> 0, END_PERCENT |-> 5000,
     RADIUS_VELOCITY |-> 500]
cwRadiusDefaults ==
    [RADIUS_VALUE |-> 100, START_PERCENT |-> 5000, END_PERCENT |-> 10000,
     RADIUS_VELOCITY |-> 500]
dwellDefaults == [DWELL |-> 10000]
angleDefaults ==
    [ANGLE |-> 450000, TAPER_DOWN_TO |-> 0, TAPER_VELOCITY |-> 500]
loopPlungeDefaults ==
    [RAPID_DOWN_TO |-> 0, DEPTH_OF_PLUNGE |-> 0, VELOCITY_AXIS1 |-> 500,
     WIDTH_OF_PLUNGE |-> 0, PLUNGE_DWELL |-> 0, NUMBER_LOOPS |-> 1,
     RETURN_TO_NEG |-> 1, NEG_POSITION |-> 100]
backTaperDefaults ==
    [TAPER_UP_TO |-> 0, TAPER_OUT_TO |-> 0, TAPER_VELOCITY |-> 20000]
rollerOffDefaults ==
    [NEG_HOME_AXIS1 |-> 15000, NEG_HOME_AXIS2 |-> 5000,
     AXIS_1_VELOCITY |-> 150000, AXIS_2_VELOCITY |-> 150000,
     AXIS_2_RETURN |-> 1]

\* ET.parse('./dat/std_xml_scripts/<name>.xml').getroot(): the MOVE template
\* of a method.  Its Id is the one getSimProgram dispatches on and its
\* Variables carry the IDs of the method's default dict.
Template(id, defaults) ==
    [Id |-> id, Order |-> <<>>, MOVEINDEX |-> <<>>,
     Variables |-> [k \in DOMAIN defaults |-> 0]]

reset == [orderNumber |-> 1, prog |-> <<>>]

\* nextOrderNumber with the increment forgotten
nextOrderNumberStuck(ttw) == [value |-> ttw.orderNumber, ttw |-> ttw]

nextOrderNumber(ttw) ==
    [value |-> ttw.orderNumber,
     ttw |-> [ttw EXCEPT !.orderNumber = @ + 1]]

appendNode(ttw, node, d) ==
    LET r == nextOrderNumber(ttw)
        n == r.value
        filled == [node EXCEPT
                     !.Order = FmtD(n),
                     !.MOVEINDEX = FmtD(n - 1),
                     !.Variables = [k \in DOMAIN node.Variables |->
                                      IF k \in DOMAIN d
                                      THEN FmtValue(k, d[k])
                                      ELSE node.Variables[k]]]
    IN [r.ttw EXCEPT !.prog = Append(@, filled)]

rollerOn(ttw, d) ==
    appendNode(ttw, Template("On", rollerOnDefaults),
               mergeDicts(rollerOnDefaults, d))
rapidIn(ttw, d) ==
    appendNode(ttw, Template("RapidIn", rapidInDefaults),
               mergeDicts(rapidInDefaults, d))
axisOne(ttw, d) ==
    appendNode(ttw, Template("Axis1", axisOneDefaults),
               mergeDicts(axisOneDefaults, d))
axisTwoOut(ttw, d) ==
    appendNode(ttw, Template("Axis2Out", axisTwoOutDefaults),
               mergeDicts(axisTwoOutDefaults, d))
axisTwoIn(ttw, d) ==
    appendNode(ttw, Template("Axis2In", axisTwoInDefaults),
               mergeDicts(axisTwoInDefaults, d))
ccwRadius(ttw, d) ==
    appendNode(ttw, Template("CCWRadius", ccwRadiusDefaults),
               mergeDicts(ccwRadiusDefaults, d))
cwRadius(ttw, d) ==
    appendNode(ttw, Template("CWRadius", cwRadiusDefaults),
               mergeDicts(cwRadiusDefaults, d))
dwell(ttw, d) ==
    appendNode(ttw, Template("Dwell", dwellDefaults),
               mergeDicts(dwellDefaults, d))
angle(ttw, d) ==
    appendNode(ttw, Template("Angle", angleDefaults),
               mergeDicts(angleDefaults, d))
loopPlunge(ttw, d) ==
    appendNode(ttw, Template("Loop Plunge", loopPlungeDefaults),
               mergeDicts(loopPlungeDefaults, d))
backTaper(ttw, d) ==
    appendNode(ttw, Template("Back Taper", backTaperDefaults),
               mergeDicts(backTaperDefaults, d))
\* a rollerOff that appends nothing
rollerOffSkipped(ttw, d) == ttw

rollerOff(ttw, d) ==
    appendNode(ttw, Template("Off", rollerOffDefaults),
               mergeDicts(rollerOffDefaults, d))

\* the empty dict {} and a one- or two-key dict
NoArgs == [k \in {} |-> 0]

(***************************************************************************)
(* TTWriter.getSimProgram.  The locals of one call are x, y, order and     *)
(* outProg; the loop body is one step.  A record of outProg is             *)
(* [tag |-> "home" | "go" | "line" | "dwell", ...].  The loop body works   *)
(* on a frame [x, y, outProg, err], err naming the exception it raised.    *)
(***************************************************************************)
Home(px, py) == [tag |-> "home", x |-> px, y |-> py]
Go(px, py, m) == [tag |-> "go", x |-> px, y |-> py, msg |-> m]
Line(px, py, pf, m) ==
    [tag |-> "line", x |-> px, y |-> py, f |-> pf, msg |-> m]
Dwell(t) == [tag |-> "dwell", dwell |-> t]

\* d[v.find('ID').text] = float(v.find('VALUE').text)
NodeDict(n) ==
    [k \in DOMAIN n.Variables |-> ParseValue(k, n.Variables[k])]

\* whole degrees of an angle held in 1e-4 degree
Degrees(a) == a \div 10000

SimAngle(d, st, br) ==
    LET dy == st.y - (br - d.TAPER_DOWN_TO)
        nx == st.x - DivTan(dy, Degrees(d.ANGLE))
        ny == st.y - dy
    IN IF Degrees(d.ANGLE) # 90 /\ TanMilli(Degrees(d.ANGLE)) = 0
       THEN [st EXCEPT !.err = "ZeroDivisionError"]
       ELSE [st EXCEPT !.x = nx, !.y = ny,
               !.outProg = Append(@, Line(nx, ny, d.TAPER_VELOCITY,
                                          "angle x and y at feed"))]

\* Axis1 whose retract also resets x
SimAxis1MoveX(d, st, br) ==
    LET ny == br - d.PLUNGE_TO
        o1 == Append(st.outProg,
                     Line(st.x, ny, d.VELOCITY_AXIS1, "move y at feed"))
    IN IF d.RETURN_TO_NEG # 0
       THEN [st EXCEPT !.x = 0, !.y = br + d.NEG_POSITION,
               !.outProg = Append(o1, Go(0, br + d.NEG_POSITION,
                                         "return to neg"))]
       ELSE [st EXCEPT !.y = ny, !.outProg = o1]

SimAxis1(d, st, br) ==
    LET ny == br - d.PLUNGE_TO
        o1 == Append(st.outProg,
                     Line(st.x, ny, d.VELOCITY_AXIS1, "move y at feed"))
    IN IF d.RETURN_TO_NEG # 0
       THEN [st EXCEPT !.y = br + d.NEG_POSITION,
               !.outProg = Append(o1, Go(st.x, br + d.NEG_POSITION,
                                         "return to neg"))]
       ELSE [st EXCEPT !.y = ny, !.outProg = o1]

SimAxis2In(d, st, br) ==
    LET bl == d.AXIS2_BACKLASH
        x1 == d.MOVE_IN_TO + bl
        o1 == Append(st.outProg,
                     Line(x1, st.y, d.VELOCITY_AXIS2, "position x at feed"))
    IN IF bl # 0
       THEN [st EXCEPT !.x = x1 - bl,
               !.outProg = Append(o1, Line(x1 - bl, st.y, d.VELOCITY_AXIS2,
                                           "shitty backlash comp"))]
       ELSE [st EXCEPT !.x = x1, !.outProg = o1]

SimAxis2Out(d, st, br) ==
    [st EXCEPT !.x = d.MOVE_OUT_TO,
       !.outProg = Append(@, Line(d.MOVE_OUT_TO, st.y, d.VELOCITY_AXIS2,
                                  "feed x move"))]

SimBackTaper(d, st, br) ==
    [st EXCEPT !.x = d.TAPER_OUT_TO, !.y = br - d.TAPER_UP_TO,
       !.outProg = Append(@, Line(d.TAPER_OUT_TO, br - d.TAPER_UP_TO,
                                  d.TAPER_VELOCITY, "back taper up to"))]

\* the i-th and later iterations of the Loop Plunge cycle
RECURSIVE SimLoopPlungeFrom(_, _, _, _)
SimLoopPlungeFrom(i, d, st, br) ==
    IF i >= d.NUMBER_LOOPS THEN st
    ELSE
      LET nx == st.x + d.WIDTH_OF_PLUNGE
          o1 == Append(st.outProg, Go(nx, st.y, "loop position x"))
          y2 == br - d.RAPID_DOWN_TO
          o2 == Append(o1, Go(nx, y2, "loop down to top of blank"))
          y3 == br - d.DEPTH_OF_PLUNGE
          o3 == Append(o2, Line(nx, y3, d.VELOCITY_AXIS1, "loop plunge"))
          o4 == IF d.PLUNGE_DWELL # 0
                THEN Append(o3, Dwell(d.PLUNGE_DWELL)) ELSE o3
          y5 == IF d.RETURN_TO_NEG # 0 THEN br + d.NEG_POSITION ELSE y3
          o5 == IF d.RETURN_TO_NEG # 0
                THEN Append(o4, Go(nx, y5, "loop return to neg")) ELSE o4
      IN SimLoopPlungeFrom(i + 1, d,
                           [st EXCEPT !.x = nx, !.y = y5, !.outProg = o5], br)

SimLoopPlunge(d, st, br) == SimLoopPlungeFrom(0, d, st, br)

\* RapidIn that never makes the backlash correction move
SimRapidInNoComp(d, st, br) ==
    LET bl == d.AXIS2_BACKLASH
        x1 == d.RAPID_IN_TO + bl
        y1 == d.ABOVE_PART + br
        o1 == Append(st.outProg, Go(x1, y1, "rapid in to x and y"))
        y3 == br + d.RAPID_DOWN_TO
    IN [st EXCEPT !.x = x1, !.y = y3,
          !.outProg = Append(o1, Line(x1, y3, d.RAPID_DOWN_VELOCITY,
                                      "move down to top of blank"))]

SimRapidIn(d, st, br) ==
    LET bl == d.AXIS2_BACKLASH
        x1 == d.RAPID_IN_TO + bl
        y1 == d.ABOVE_PART + br
        o1 == Append(st.outProg, Go(x1, y1, "rapid in to x and y"))
        x2 == IF bl # 0 THEN d.RAPID_IN_TO ELSE x1
        o2 == IF bl # 0
              THEN Append(o1, Go(x2, y1, "shitty backlash comp move"))
              ELSE o1
        y3 == br + d.RAPID_DOWN_TO
    IN [st EXCEPT !.x = x2, !.y = y3,
          !.outProg = Append(o2, Line(x2, y3, d.RAPID_DOWN_VELOCITY,
                                      "move down to top of blank"))]

\* Off that appends the end home without back-filling the start home
SimOffNoBackfill(d, st, br) ==
    LET nx == -d.NEG_HOME_AXIS2
        ny == d.NEG_HOME_AXIS1 + br
    IN IF Len(st.outProg) = 0
       THEN [st EXCEPT !.x = nx, !.y = ny, !.err = "IndexError"]
       ELSE [st EXCEPT !.x = nx, !.y = ny,
               !.outProg = Append(@, Home(nx, ny))]

SimOff(d, st, br) ==
    LET nx == -d.NEG_HOME_AXIS2
        ny == d.NEG_HOME_AXIS1 + br
    IN IF Len(st.outProg) = 0
       THEN [st EXCEPT !.x = nx, !.y = ny, !.err = "IndexError"]
       ELSE IF st.outProg[1].tag # "home"
       THEN [st EXCEPT !.x = nx, !.y = ny, !.err = "KeyError"]
       ELSE [st EXCEPT !.x = nx, !.y = ny,
               !.outProg = Append([@ EXCEPT ![1] = Home(nx, ny)],
                                  Home(nx, ny))]

SimOn(d, st, br) ==
    [st EXCEPT !.outProg = Append(@, Home(0, 0))]

\* the if/elif chain of the loop body; an Id with no branch changes nothing
SimMove(n, st, br) ==
    LET d == NodeDict(n)
    IN CASE n.Id = "Angle" -> SimAngle(d, st, br)
         [] n.Id = "Axis1" -> SimAxis1(d, st, br)
         [] n.Id = "Axis2In" -> SimAxis2In(d, st, br)
         [] n.Id = "Axis2Out" -> SimAxis2Out(d, st, br)
         [] n.Id = "Back Taper" -> SimBackTaper(d, st, br)
         [] n.Id = "CCWRadius" -> st
         [] n.Id = "CWRadius" -> st
         [] n.Id = "Loop Plunge" -> SimLoopPlunge(d, st, br)
         [] n.Id = "RapidIn" -> SimRapidIn(d, st, br)
         [] n.Id = "Off" -> SimOff(d, st, br)
         [] n.Id = "On" -> SimOn(d, st, br)
         [] OTHER -> st

\* the order test that lets equal Orders through
OutOfOrderStrict(n, ord) == ParseInt(n.Order) < ord

OutOfOrder(n, ord) == ParseInt(n.Order) <= ord

\* blankDia values a replay is asked for (0.5 and 0.25 inch)
BlankDias == {5000, 2500}

IdleFrame ==
    /\ simStatus = "idle" /\ simIdx = 0 /\ blankDia = 0 /\ x = 0 /\ y = 0
    /\ order = -1 /\ outProg = <<>> /\ ret = None

\* getSimProgram(blankDia): entry, up to the loop
StartSim ==
    /\ simStatus = "idle"
    /\ \E bd \in BlankDias : blankDia' = bd
    /\ simStatus' = "running"
    /\ simIdx' = 0 /\ x' = 0 /\ y' = 0 /\ order' = -1
    /\ outProg' = <<>> /\ ret' = None
    /\ UNCHANGED <<writerVars, widgetVars, plungeVars, kernelVars, extraVars>>

\* one iteration of the loop over the MOVE nodes
SimStep ==
    /\ simStatus = "running"
    /\ simIdx < Len(prog)
    /\ LET n == prog[simIdx + 1]
           br == RoundDiv(blankDia, 2)
           st == SimMove(n, [x |-> x, y |-> y, outProg |-> outProg,
                             err |-> None], br)
       IN IF OutOfOrder(n, order)
          THEN /\ simStatus' = "TTWriterError"
               /\ UNCHANGED <<simIdx, x, y, order, outProg>>
          ELSE /\ order' = ParseInt(n.Order)
               /\ x' = st.x /\ y' = st.y /\ outProg' = st.outProg
               /\ simIdx' = IF st.err = None THEN simIdx + 1 ELSE simIdx
               /\ simStatus' = IF st.err = None THEN "running" ELSE st.err
    /\ UNCHANGED <<blankDia, ret>>
    /\ UNCHANGED <<writerVars, widgetVars, plungeVars, kernelVars, extraVars>>

\* return outProg
SimReturn ==
    /\ simStatus = "running"
    /\ simIdx = Len(prog)
    /\ simStatus' = "returned"
    /\ ret' = outProg
    /\ UNCHANGED <<simIdx, blankDia, x, y, order, outProg>>
    /\ UNCHANGED <<writerVars, widgetVars, plungeVars, kernelVars, extraVars>>

\* the caller is done with the result (or the exception): the frame is gone
SimDone ==
    /\ simStatus \notin {"idle", "running"}
    /\ simStatus' = "idle" /\ simIdx' = 0 /\ blankDia' = 0 /\ x' = 0 /\ y' = 0
    /\ order' = -1 /\ outProg' = <<>> /\ ret' = None
    /\ UNCHANGED <<writerVars, widgetVars, plungeVars, kernelVars, extraVars>>

(***************************************************************************)
(* The writer's operations as actions.  A method runs only while no        *)
(* getSimProgram call is in progress (the program is single-threaded).     *)
(* Each method takes its dict from a small set of arguments.               *)
(***************************************************************************)
Ttw == [orderNumber |-> orderNumber, prog |-> prog]

Commit(w) == /\ orderNumber' = w.orderNumber
             /\ prog' = w.prog
             /\ UNCHANGED <<simVars, widgetVars, plungeVars, kernelVars, extraVars>>

RollerOnArgs == {NoArgs}
RapidInArgs == {[RAPID_IN_TO |-> 10000],
                [RAPID_IN_TO |-> 10000, AXIS2_BACKLASH |-> 0]}
AxisOneArgs == {[PLUNGE_TO |-> 1000],
                [PLUNGE_TO |-> 1000, RETURN_TO_NEG |-> 0]}
AxisTwoOutArgs == {[MOVE_OUT_TO |-> 2000]}
AxisTwoInArgs == {[MOVE_IN_TO |-> 3000],
                  [MOVE_IN_TO |-> 3000, AXIS2_BACKLASH |-> 0]}
RadiusArgs == {NoArgs}
DwellArgs == {NoArgs}
AngleArgs == {[TAPER_DOWN_TO |-> 500], [ANGLE |-> 0]}
LoopPlungeArgs == {[WIDTH_OF_PLUNGE |-> 500, DEPTH_OF_PLUNGE |-> 200,
                    NUMBER_LOOPS |-> 2, PLUNGE_DWELL |-> 10000]}
BackTaperArgs == {[TAPER_UP_TO |-> 100, TAPER_OUT_TO |-> 1000]}
RollerOffArgs == {NoArgs,
                  [NEG_HOME_AXIS1 |-> 10000, NEG_HOME_AXIS2 |-> 2500]}

CanAppend(max) == simStatus = "idle" /\ Len(prog) < max

Reset == /\ simStatus = "idle"
         /\ Commit(reset)
RollerOn(max) ==
    /\ CanAppend(max)
    /\ \E d \in RollerOnArgs : Commit(rollerOn(Ttw, d))
RapidIn(max) ==
    /\ CanAppend(max)
    /\ \E d \in RapidInArgs : Commit(rapidIn(Ttw, d))
AxisOne(max) ==
    /\ CanAppend(max)
    /\ \E d \in AxisOneArgs : Commit(axisOne(Ttw, d))
AxisTwoOut(max) ==
    /\ CanAppend(max)
    /\ \E d \in AxisTwoOutArgs : Commit(axisTwoOut(Ttw, d))
AxisTwoIn(max) ==
    /\ CanAppend(max)
    /\ \E d \in AxisTwoInArgs : Commit(axisTwoIn(Ttw, d))
CcwRadius(max) ==
    /\ CanAppend(max)
    /\ \E d \in RadiusArgs : Commit(ccwRadius(Ttw, d))
CwRadius(max) ==
    /\ CanAppend(max)
    /\ \E d \in RadiusArgs : Commit(cwRadius(Ttw, d))
DwellMove(max) ==
    /\ CanAppend(max)
    /\ \E d \in DwellArgs : Commit(dwell(Ttw, d))
AngleMove(max) ==
    /\ CanAppend(max)
    /\ \E d \in AngleArgs : Commit(angle(Ttw, d))
LoopPlunge(max) ==
    /\ CanAppend(max)
    /\ \E d \in LoopPlungeArgs : Commit(loopPlunge(Ttw, d))
BackTaper(max) ==
    /\ CanAppend(max)
    /\ \E d \in BackTaperArgs : Commit(backTaper(Ttw, d))
RollerOff(max) ==
    /\ CanAppend(max)
    /\ \E d \in RollerOffArgs : Commit(rollerOff(Ttw, d))

(***************************************************************************)
(* dim/dimension.py: LinearDim over two point references and AngleDim.     *)
(* A point is <<x, y>> and a line <<p1, p2>>, with integer coordinates     *)
(* (LinearDim: scene units; AngleDim: halves of a scene unit, its default  *)
(* label being at (0.5, 0.5)).  A dimension value counts 1e-3.  A          *)
(* dimension object is the record                                          *)
(*   [cls, specMap, dimText, inScene, configured, raised, last]:           *)
(* dimText is the label's [pos, text], inScene says whether scene() is a   *)
(* scene, configured names the _config* method that built the painter      *)
(* path, raised is the exception of the last call (None if it returned)    *)
(* and last names the last call made on the object.                        *)
(***************************************************************************)
FMTMM == [places |-> 3, suffix |-> "mm"]
FMTANG == [places |-> 2, suffix |-> "deg"]

RECURSIVE Pow10(_)
Pow10(n) == IF n = 0 THEN 1 ELSE 10 * Pow10(n - 1)

\* the last width digits of n, most significant first
RECURSIVE Digits(_, _)
Digits(n, width) ==
    IF width = 0 THEN <<>> ELSE Append(Digits(n \div 10, width - 1), n % 10)

\* str.rstrip('0') on a run of digits
RECURSIVE rstrip0(_)
rstrip0(s) ==
    IF Len(s) > 0 /\ s[Len(s)] = 0 THEN rstrip0(SubSeq(s, 1, Len(s) - 1))
    ELSE s

\* fmt % value with the trailing zeros of the fraction removed, one kept
\* after a bare point, then the suffix (value >= 0)
dimFormat(fmt, value) ==
    LET n == RoundDiv(value * Pow10(fmt.places), 1000)
        frac == rstrip0(Digits(n % Pow10(fmt.places), fmt.places))
    IN [whole |-> FmtD(n \div Pow10(fmt.places)),
        frac |-> IF Len(frac) = 0 THEN <<0>> ELSE frac,
        suffix |-> fmt.suffix]

LinearDimDefaults ==
    [value |-> 30000, pos |-> <<0, 0>>, ref1 |-> <<-15, 0>>,
     ref2 |-> <<15, 0>>, outside |-> FALSE, format |-> FMTMM, force |-> None]

AngleDimDefaults ==
    [value |-> 90000, pos |-> <<1, 1>>, line1 |-> << <<-2, 0>>, <<2, 0>> >>,
     line2 |-> << <<0, -2>>, <<0, 2>> >>, outside |-> FALSE,
     quadV |-> <<1, 1>>, format |-> FMTANG]

\* what Dimension.config hands to the label
DimLabelConfig(specMap) ==
    [pos |-> specMap.pos, text |-> dimFormat(specMap.format, specMap.value)]

\* Dimension.config: the specs and the label are updated first; the result
\* of the call is whether the item is in a scene (d.inScene).
DimensionConfig(d, specMap) ==
    LET sm == mergeDicts(d.specMap, specMap)
    IN [d EXCEPT !.specMap = sm, !.dimText = DimLabelConfig(sm)]

Raise(d, exception) == [d EXCEPT !.raised = exception]

\* the three methods that build the painter path of a two point dimension;
\* the model keeps which one ran
\* a _configVertical that lays the dimension along the references
_configVerticalAsParallel(d) == [d EXCEPT !.configured = "parallel"]
_configVertical(d) == [d EXCEPT !.configured = "vertical"]
\* a _configHorizontal that builds a vertical dimension
_configHorizontalAsVertical(d) == [d EXCEPT !.configured = "vertical"]
_configHorizontal(d) == [d EXCEPT !.configured = "horizontal"]
_configParallel(d) == [d EXCEPT !.configured = "parallel"]

\* QRectF(p1, p2).normalized()
NormalizedRect(p1, p2) ==
    [left |-> IF p1[1] < p2[1] THEN p1[1] ELSE p2[1],
     right |-> IF p1[1] < p2[1] THEN p2[1] ELSE p1[1],
     top |-> IF p1[2] < p2[2] THEN p1[2] ELSE p2[2],
     bottom |-> IF p1[2] < p2[2] THEN p2[2] ELSE p1[2]]

\* a contains that finds no point inside
containsNothing(rect, pos) == FALSE
\* QRectF.contains(QPointF): false for an empty rect, edges included
contains(rect, pos) ==
    /\ rect.left # rect.right
    /\ rect.top # rect.bottom
    /\ rect.left <= pos[1] /\ pos[1] <= rect.right
    /\ rect.top <= pos[2] /\ pos[2] <= rect.bottom

\* a _configTwoPoints that obeys force on aligned references too
_configTwoPointsForced(d, p1, p2) ==
    LET pos == d.specMap.pos
        px == pos[1]
        py == pos[2]
        force == d.specMap.force
        rect == NormalizedRect(p1, p2)
        posInRect == contains(rect, pos)
    IN IF p1 = p2 THEN Raise(d, "LinearDimException")
       ELSE IF force = "vertical" THEN _configVertical(d)
       ELSE IF force = "horizontal" THEN _configHorizontal(d)
       ELSE IF p1[1] = p2[1] THEN _configVertical(d)
       ELSE IF p1[2] = p2[2] THEN _configHorizontal(d)
       ELSE IF py < rect.bottom /\ py > rect.top /\ ~posInRect
            THEN _configVertical(d)
       ELSE IF px > rect.left /\ px < rect.right /\ ~posInRect
            THEN _configHorizontal(d)
       ELSE _configParallel(d)

\* LinearDim._configTwoPoints
_configTwoPoints(d, p1, p2) ==
    LET pos == d.specMap.pos
        px == pos[1]
        py == pos[2]
        force == d.specMap.force
        rect == NormalizedRect(p1, p2)
        posInRect == contains(rect, pos)
    IN IF p1 = p2 THEN Raise(d, "LinearDimException")
       \* vertical
       ELSE IF p1[1] = p2[1] THEN
            IF force = "horizontal" THEN Raise(d, "LinearDimException")
            ELSE _configVertical(d)
       \* horizontal
       ELSE IF p1[2] = p2[2] THEN
            IF force = "vertical" THEN Raise(d, "LinearDimException")
            ELSE _configHorizontal(d)
       \* points are diagonal
       ELSE IF force = "vertical" THEN _configVertical(d)
       ELSE IF force = "horizontal" THEN _configHorizontal(d)
       \* section 4 or 6
       ELSE IF py < rect.bottom /\ py > rect.top /\ ~posInRect
            THEN _configVertical(d)
       \* section 2 or 8
       ELSE IF px > rect.left /\ px < rect.right /\ ~posInRect
            THEN _configHorizontal(d)
       \* section 1, 3, 5, 7, 9
       ELSE _configParallel(d)

\* LinearDim.config with two QPointF references
LinearDimConfig(d, specMap) ==
    LET e == DimensionConfig(d, specMap)
    IN IF ~e.inScene THEN e
       ELSE _configTwoPoints(e, e.specMap.ref1, e.specMap.ref2)

\* QLineF.isNull()
isNull(line) == line[1] = line[2]

\* the denominator of QLineF.intersect: zero means NoIntersection
Denominator(l1, l2) ==
    LET a == <<l1[2][1] - l1[1][1], l1[2][2] - l1[1][2]>>
        b == <<l2[1][1] - l2[2][1], l2[1][2] - l2[2][2]>>
    IN a[2] * b[1] - a[1] * b[2]

\* the intersection point QLineF.intersect stores (Denominator # 0)
xsectP(l1, l2) ==
    LET a == <<l1[2][1] - l1[1][1], l1[2][2] - l1[1][2]>>
        b == <<l2[1][1] - l2[2][1], l2[1][2] - l2[2][2]>>
        c == <<l1[1][1] - l2[1][1], l1[1][2] - l2[1][2]>>
        na == b[2] * c[1] - b[1] * c[2]
        den == Denominator(l1, l2)
    IN <<l1[1][1] + RoundDiv(a[1] * na, den),
         l1[1][2] + RoundDiv(a[2] * na, den)>>

\* AngleDim.config: a label on the intersection point gives the leader arcs
\* radius 0 and the span computation divides by 2 * radius * radius
AngleDimConfig(d, specMap) ==
    LET e == DimensionConfig(d, specMap)
        l1 == e.specMap.line1
        l2 == e.specMap.line2
    IN IF ~e.inScene THEN e
       ELSE IF isNull(l1) \/ isNull(l2) THEN Raise(e, "AngleDimException")
       ELSE IF Denominator(l1, l2) = 0 THEN Raise(e, "AngleDimException")
       ELSE IF e.specMap.pos = xsectP(l1, l2)
            THEN Raise(e, "ZeroDivisionError")
       ELSE [e EXCEPT !.configured = "angle"]

\* LinearDim.__init__ / AngleDim.__init__ (the lines not null): the item is
\* in no scene yet, so the config call of the constructor stops after
\* Dimension.config
NewDimension(cls, specMap) ==
    [cls |-> cls, specMap |-> specMap, dimText |-> DimLabelConfig(specMap),
     inScene |-> FALSE, configured |-> "none", raised |-> None,
     last |-> "__init__"]

(***************************************************************************)
(* arc.py.  An Arc is its map m, a function from the keys it holds to      *)
(* their values: radius counts 0.1, start and span are whole degrees.      *)
(* The arc variable is [m, raised, call]: the map of the Arc object in     *)
(* hand, the exception of the last call (None if it returned) and the      *)
(* last call [op, args].                                                   *)
(***************************************************************************)
ArcDefaults == [center |-> <<0, 0>>, radius |-> 5, start |-> 0, span |-> 90]

\* the test of __init__ and of config: r is not None and r <= 0.0
BadRadius(m) == "radius" \in DOMAIN m /\ m.radius <= 0

\* Arc(m): [m, raised]; a constructor that raises leaves no new object, so
\* the map is the one of the object in hand (old)
ArcNew(old, m) ==
    IF BadRadius(m) THEN [m |-> old, raised |-> "ArcException"]
    ELSE [m |-> m, raised |-> None]

\* Arc.config: the update comes before the test
ArcConfig(old, m) ==
    LET upd == mergeDicts(old, m)
    IN [m |-> upd,
        raised |-> IF BadRadius(upd) THEN "ArcException" ELSE None]

\* Arc.radius(value): a setter for every truthy value, a getter otherwise
ArcRadius(old, value) ==
    [m |-> IF value # 0 THEN mergeDicts(old, [k \in {"radius"} |-> value])
           ELSE old,
     raised |-> IF value = 0 /\ "radius" \notin DOMAIN old THEN "KeyError"
                ELSE None]

\* Arc.fromAngles
fromAngles(old, a1, a2, radius, cclw) ==
    LET a == ArcDefaults
        b1 == a1 % 360
        b2 == a2 % 360
        r == IF a1 = a2
             THEN ArcConfig(a, [radius |-> radius, start |-> 0,
                                span |-> IF cclw THEN 360 ELSE -360])
             ELSE IF cclw
             THEN ArcConfig(a, [radius |-> radius, start |-> b1,
                                span |-> (IF b2 < b1 THEN b2 + 360 ELSE b2)
                                         - b1])
             ELSE ArcConfig(a, [radius |-> radius, start |-> b1,
                                span |-> -((IF b1 < b2 THEN b1 + 360 ELSE b1)
                                           - b2)])
    IN IF r.raised # None THEN [m |-> old, raised |-> r.raised] ELSE r

(***************************************************************************)
(* TTWidget.__init__: the state of the main widget after construction.     *)
(* The edits hold their defaults, the grind type is Point, nothing has     *)
(* been written or simulated.                                              *)
(***************************************************************************)
defaultWheelWidth == 2500
defaultWheelOverlap == 90
defaultBackTaper == 5
defaultFeed == 500

PointDefaults == [blankDia |-> 5000, blankLength |-> 20000, tipAngle |-> 118]

GrindDefaults ==
    [wheelWidth |-> defaultWheelWidth, wheelOverlap |-> defaultWheelOverlap,
     backTaper |-> defaultBackTaper]

FeedDefaults ==
    [plungeFeed |-> defaultFeed, seg1Feed |-> defaultFeed,
     seg2Feed |-> defaultFeed, seg3Feed |-> defaultFeed]

\* a list-valued result that is absent
Nothing == <<>>

NoOutcome ==
    [raised |-> None, msg |-> None, plunge |-> Nothing, prog |-> Nothing,
     rough |-> 0, wrote |-> FALSE, ret |-> Nothing]

WidgetInit ==
    /\ grindType = 0
    /\ toolSpecs = PointDefaults
    /\ grind = GrindDefaults
    /\ feeds = FeedDefaults
    /\ invalidEdit = "none"
    /\ simChecked = FALSE
    /\ enabled = TRUE
    /\ out = NoOutcome

\* no direct getPlungePoints call is being looked at
PlungeIdle == gpArgs = <<>> /\ gpResult = <<>>

\* no checkGeometry call is being looked at; the dimension and the arc are
\* the objects their constructors build by default
GeometryIdle == cgArgs = <<>> /\ cgResult = <<>>
DimIdle == dim = NewDimension("LinearDim", LinearDimDefaults)
ArcIdle ==
    arc = [m |-> ArcDefaults, raised |-> None,
           call |-> [op |-> "__init__", args |-> <<>>]]
KernelIdle == GeometryIdle /\ DimIdle /\ ArcIdle
\* no Path2d, no linesCollinear call, no TTToolDef and no GrindAnim in hand
ExtraIdle == path = Nothing /\ lc = Nothing /\ tdef = Nothing /\ anim = Nothing

\* TTWriter(): __init__ calls reset(); no replay is running
Init ==
    /\ orderNumber = reset.orderNumber
    /\ prog = reset.prog
    /\ IdleFrame
    /\ WidgetInit
    /\ ExtraIdle
    /\ PlungeIdle
    /\ KernelIdle

Next ==
    \/ Reset
    \/ RollerOn(MaxMoves)
    \/ RapidIn(MaxMoves)
    \/ AxisOne(MaxMoves)
    \/ AxisTwoOut(MaxMoves)
    \/ AxisTwoIn(MaxMoves)
    \/ CcwRadius(MaxMoves)
    \/ CwRadius(MaxMoves)
    \/ DwellMove(MaxMoves)
    \/ AngleMove(MaxMoves)
    \/ LoopPlunge(MaxMoves)
    \/ BackTaper(MaxMoves)
    \/ RollerOff(MaxMoves)
    \/ StartSim
    \/ SimStep
    \/ SimReturn
    \/ SimDone

Spec == Init /\ [][Next]_vars

(***************************************************************************)
(* SpecDemo: the four methods of the ttwriter self-test style program      *)
(* On / RapidIn / Axis1 / Off, with longer programs.                       *)
(***************************************************************************)
NextDemo ==
    \/ Reset
    \/ RollerOn(MaxDemoMoves)
    \/ RapidIn(MaxDemoMoves)
    \/ AxisOne(MaxDemoMoves)
    \/ RollerOff(MaxDemoMoves)
    \/ StartSim
    \/ SimStep
    \/ SimReturn
    \/ SimDone

SpecDemo == Init /\ [][NextDemo]_vars

(***************************************************************************)
(* SpecOrder: replay of a program that did not come from the append        *)
(* methods (an XML file whose MOVEs were rearranged): every node carries   *)
(* an arbitrary Order.                                                     *)
(***************************************************************************)
FilledNode(id, defaults, o) ==
    [Id |-> id, Order |-> FmtD(o), MOVEINDEX |-> FmtD(0),
     Variables |-> [k \in DOMAIN defaults |-> FmtValue(k, defaults[k])]]

OrderNodes ==
    UNION {{FilledNode("On", rollerOnDefaults, o),
            FilledNode("Off", rollerOffDefaults, o),
            FilledNode("Axis1", axisOneDefaults, o),
            FilledNode("Angle", [angleDefaults EXCEPT !.ANGLE = 0], o)}
           : o \in 0..MaxOrder}

OrderProgs == UNION {[1..k -> OrderNodes] : k \in 0..MaxMoves}

InitOrder ==
    /\ orderNumber = 1
    /\ prog \in OrderProgs
    /\ IdleFrame
    /\ WidgetInit
    /\ ExtraIdle
    /\ PlungeIdle
    /\ KernelIdle

NextOrder ==
    \/ StartSim
    \/ SimStep
    \/ SimReturn
    \/ SimDone

SpecOrder == InitOrder /\ [][NextOrder]_vars

(***************************************************************************)
(* getSimProgram as one call, for the handlers that call it: the same      *)
(* loop, run to its end.                                                   *)
(***************************************************************************)
RECURSIVE Replay(_, _, _, _, _)
Replay(p, i, st, ord, br) ==
    IF i > Len(p) THEN [status |-> "returned", ret |-> st.outProg]
    ELSE IF OutOfOrder(p[i], ord)
    THEN [status |-> "TTWriterError", ret |-> None]
    ELSE LET s2 == SimMove(p[i], st, br)
         IN IF s2.err # None THEN [status |-> s2.err, ret |-> None]
            ELSE Replay(p, i + 1, s2, ParseInt(p[i].Order), br)

getSimProgram(ttw, bd) ==
    Replay(ttw.prog, 1,
           [x |-> 0, y |-> 0, outProg |-> <<>>, err |-> None], -1,
           RoundDiv(bd, 2))

(***************************************************************************)
(* Tool profiles (tttooldef.py, _updateProfile of each family): the        *)
(* elements of the Path2d half profile.  A point is <<x, y>>; an arc       *)
(* descriptor is <<end point, centre point, direction>>.  Angles of tool   *)
(* specs are whole degrees.                                                *)
(***************************************************************************)
Half(v) == RoundDiv(v, 2)

tipLength(includedAngle, dia) == DivTan(Half(dia), Half(includedAngle))

PointProfile(s) ==
    LET br == Half(s.blankDia)
        px == DivTan(br, Half(s.tipAngle))
    IN << <<0, 0>>, <<px, br>>, <<s.blankLength, br>>, <<s.blankLength, 0>> >>

NeckProfile(s) ==
    LET br == Half(s.blankDia)
        nr == Half(s.neckDia)
        chLen == IF s.chamferAngle < 90
                 THEN DivTan(br - nr, s.chamferAngle) ELSE 0
    IN << <<0, 0>>, <<0, br>>, <<s.cutLength, br>>, <<s.cutLength, nr>>,
          <<s.neckLength, nr>>,
          IF chLen = 0 THEN <<s.neckLength, br>>
          ELSE <<s.neckLength + chLen, br>>,
          <<s.blankLength, br>>, <<s.blankLength, 0>> >>

SpindownProfile(s) ==
    LET br == Half(s.blankDia)
        sr == Half(s.spinDia)
        chLen == IF s.chamferAngle < 90
                 THEN DivTan(br - sr, s.chamferAngle) ELSE 0
    IN << <<0, 0>>, <<0, sr>>, <<s.spinLength, sr>>,
          IF chLen = 0 THEN <<s.spinLength, br>>
          ELSE <<s.spinLength + chLen, br>>,
          <<s.blankLength, br>>, <<s.blankLength, 0>> >>

Spindown2Profile(s) ==
    LET br == Half(s.blankDia)
        sr == Half(s.spinDia)
        tipLen == IF s.tipAngle < 180 THEN tipLength(s.tipAngle, sr * 2)
                  ELSE 0
        chLen == IF s.chamferAngle < 90
                 THEN DivTan(br - sr, s.chamferAngle) ELSE 0
    IN << <<0, 0>>,
          IF tipLen = 0 THEN <<0, sr>> ELSE <<tipLen, sr>>,
          <<s.spinLength, sr>>,
          IF chLen = 0 THEN <<s.spinLength, br>>
          ELSE <<s.spinLength + chLen, br>>,
          <<s.blankLength, br>>, <<s.blankLength, 0>> >>

TaperProfile(s) ==
    LET br == Half(s.blankDia)
        tr == Half(s.tipDia)
        dx == DivTan(br - tr, Half(s.includedAngle))
    IN << <<0, 0>>, <<0, tr>>, <<dx, br>>, <<s.blankLength, br>>,
          <<s.blankLength, 0>> >>

Taper2Profile(s) ==
    LET br == Half(s.blankDia)
        tr == Half(s.tipDia)
        taperBigEndRad == MulTan(s.taperLength, Half(s.includedAngle)) + tr
    IN << <<0, 0>>, <<0, tr>>, <<s.taperLength, taperBigEndRad>>,
          IF s.chamferAngle < 90
          THEN <<s.taperLength
                   + DivTan(br - taperBigEndRad, s.chamferAngle), br>>
          ELSE <<s.taperLength, br>>,
          <<s.blankLength, br>>, <<s.blankLength, 0>> >>

(***************************************************************************)
(* ttpathgen.getPlungePoints.  specs.wheelOverlap is the overlap in        *)
(* percent (the widget divides the edit's value by 100).  The result is    *)
(* [err, plungePts, te]; err names the exception raised, and then nothing  *)
(* is returned.  The optional startZ is <<>> for None and <<z>> for z.      *)
(***************************************************************************)
NoStartZ == <<>>

IsArc(e) == Len(e) # 2

\* elements[i], Python's index
El(seq, i) == seq[i + 1]

\* the translation loop's test: some element is not a two-element point
HasArc(elements) == \E k \in 1..Len(elements) : IsArc(elements[k])

\* the translation loop's result when it raises nothing
Translate(specs, elements) ==
    [k \in 1..Len(elements) |->
        <<elements[k][1], Half(specs.blankDia) - elements[k][2]>>]

\* math.ceil(zlen / (ww * wo))
PassCount(zlen, specs) ==
    CeilDiv(zlen * 100, specs.wheelWidth * specs.wheelOverlap)

\* QLineF(a, b) against the vertical probe at z from bd to -bd: the
\* intersection point when it is a BoundedIntersection, else None
Intersect(a, b, z, bd) ==
    LET lo == IF a[1] <= b[1] THEN a[1] ELSE b[1]
        hi == IF a[1] <= b[1] THEN b[1] ELSE a[1]
        py == a[2] + RoundDiv((z - a[1]) * (b[2] - a[2]), b[1] - a[1])
    IN IF lo <= z /\ z <= hi /\ -bd <= py /\ py <= bd
       THEN <<z, py>> ELSE None

\* the inner loop over zip(te, te[1:]) from pair k on: the first bounded
\* intersection, or None
RECURSIVE FirstHit(_, _, _, _)
FirstHit(te, k, z, bd) ==
    IF k >= Len(te) THEN None
    ELSE LET a == te[k]
             b == te[k + 1]
         IN IF (a[2] = 0 /\ b[2] = 0) \/ a[1] = b[1]
            THEN FirstHit(te, k + 1, z, bd)
            ELSE LET hit == Intersect(a, b, z, bd)
                 IN IF hit # None THEN hit
                    ELSE FirstHit(te, k + 1, z, bd)

\* the probe position of iteration k of the outer loop
ProbeZ(k, zlen, n, startZ) ==
    IF startZ # NoStartZ
    THEN (IF k = 0 THEN startZ[1] ELSE startZ[1] + RoundDiv(zlen * k, n))
    ELSE RoundDiv(zlen * (k + 1), n)

\* the outer loop, iterations k .. count-1
RECURSIVE PlungeLoop(_, _, _, _, _, _, _, _)
PlungeLoop(k, count, te, zlen, n, startZ, bd, pts) ==
    IF k >= count THEN pts
    ELSE LET hit == FirstHit(te, 1, ProbeZ(k, zlen, n, startZ), bd)
         IN PlungeLoop(k + 1, count, te, zlen, n, startZ, bd,
                       IF hit # None THEN Append(pts, hit) ELSE pts)

\* range(n - (1 if startZ is None else 0)) taken as range(n)
LoopCountAll(n, startZ) == n

LoopCount(n, startZ) == n - (IF startZ = NoStartZ THEN 1 ELSE 0)

\* an exception that still hands back (empty) lists
RaisedWithLists(e) == [err |-> e, plungePts |-> <<>>, te |-> <<>>]

\* an exception leaves the function: nothing is returned
Raised(e) == [err |-> e, plungePts |-> None, te |-> None]

getPlungePoints(specs, elements, i, startZ) ==
    IF HasArc(elements) THEN Raised("TTPathGenError")
    ELSE
      LET bd == specs.blankDia
          te == Translate(specs, elements)
          zlen0 == El(elements, i)[1]
          zlen == IF startZ # NoStartZ THEN zlen0 - startZ[1] ELSE zlen0
          n == PassCount(zlen, specs)
      IN IF startZ # NoStartZ /\ startZ[1] >= zlen0
         THEN Raised("TTPathGenError")
         ELSE IF n = 0 THEN Raised("ZeroDivisionError")
         ELSE [err |-> None,
               plungePts |-> PlungeLoop(0, LoopCount(n, startZ), te, zlen, n,
                                        startZ, bd, <<>>),
               te |-> te]

(***************************************************************************)
(* TTWidget: the program emitters.  Each returns the outcome of the call:  *)
(*   raised  the exception that left the handler, or None                  *)
(*   msg     the text of the message box shown, or None                    *)
(*   plunge  the pair getPlungePoints returned, <<>> when it was not       *)
(*           called or raised                                              *)
(*   prog    the MOVE nodes of the TTWriter built, <<>> when none was      *)
(*           constructed                                                   *)
(*   rough   how many rough passes the rough loop appended                 *)
(*   wrote   whether ttw.write() ran                                       *)
(*   ret     the simulation program returned, <<>> when None was returned  *)
(***************************************************************************)
simY == 3

Deg(a) == a * 10000

Outcome(raised, msg, plunge, nodes, rough, wrote, value) ==
    [raised |-> raised, msg |-> msg, plunge |-> plunge, prog |-> nodes,
     rough |-> rough, wrote |-> wrote, ret |-> value]

\* plungePts, te = getPlungePoints(...)
Returned(pp) == <<pp.plungePts, pp.te>>

\* the tail of every emitter:  if forSim: return ttw.getSimProgram(bd)
\* else: ttw.write(); QMessageBox.information(..., "Write OK!")
Finish(ttw, plunge, rough, bd, forSim) ==
    IF forSim
    THEN LET r == getSimProgram(ttw, bd)
         IN Outcome(IF r.status = "returned" THEN None ELSE r.status, None,
                    plunge, ttw.prog, rough, FALSE,
                    IF r.status = "returned" THEN r.ret ELSE Nothing)
    ELSE Outcome(None, "Write OK!", plunge, ttw.prog, rough, TRUE, Nothing)

\* a rough loop whose rapid-ins are written with the default backlash
RECURSIVE RoughPassesDefaultBacklash(_, _, _, _, _)
RoughPassesDefaultBacklash(ttw, pts, k, specs, forSim) ==
    IF k > Len(pts) THEN ttw
    ELSE RoughPassesDefaultBacklash(
           axisOne(rapidIn(ttw, [RAPID_IN_TO |-> pts[k][1]]),
                   [PLUNGE_TO |-> pts[k][2] - (IF forSim THEN simY ELSE 0),
                    VELOCITY_AXIS1 |-> specs.plungeFeed]),
           pts, k + 1, specs, forSim)

\* if plungePts: for pp in plungePts: rapidIn(...); axisOne(...)
RECURSIVE RoughPasses(_, _, _, _, _)
RoughPasses(ttw, pts, k, specs, forSim) ==
    IF k > Len(pts) THEN ttw
    ELSE RoughPasses(
           axisOne(rapidIn(ttw, [RAPID_IN_TO |-> pts[k][1],
                                 AXIS2_BACKLASH |-> 0]),
                   [PLUNGE_TO |-> pts[k][2] - (IF forSim THEN simY ELSE 0),
                    VELOCITY_AXIS1 |-> specs.plungeFeed]),
           pts, k + 1, specs, forSim)

\* writePointProg's loop  for i in range(n - 1)  from iteration i on, z
\* being the current position
RECURSIVE PointPasses(_, _, _, _, _, _, _, _)
PointPasses(ttw, i, n, z, tl, a, specs, forSim) ==
    IF i >= n - 1 THEN ttw
    ELSE LET dy == MulTan(tl - z, a)
             w1 == axisOne(ttw,
                     [PLUNGE_TO |-> dy - (IF forSim THEN simY ELSE 0),
                      VELOCITY_AXIS1 |-> specs.plungeFeed])
             z2 == RoundDiv(tl * (i + 2), n)
             bl == IF i < n - 1 THEN 0 ELSE DEFAULT_AXIS_2_BACKLASH
         IN PointPasses(rapidIn(w1, [RAPID_IN_TO |-> z2,
                                     AXIS2_BACKLASH |-> bl]),
                        i + 1, n, z2, tl, a, specs, forSim)

writePointProg(specs, forSim) ==
    LET bd == specs.blankDia
        ta == specs.tipAngle
        tl == tipLength(ta, bd)
        n == PassCount(tl, specs)
        a == Half(ta)
        z == RoundDiv(tl, n)
        w1 == rollerOn(reset, NoArgs)
        w2 == IF n = 1 THEN rapidIn(w1, [RAPID_IN_TO |-> z])
              ELSE rapidIn(w1, [RAPID_IN_TO |-> z, AXIS2_BACKLASH |-> 0])
        w3 == PointPasses(w2, 0, n, z, tl, a, specs, forSim)
        w4 == angle(w3, [ANGLE |-> Deg(a), TAPER_DOWN_TO |-> Half(bd) + 100,
                         TAPER_VELOCITY |-> specs.seg1Feed])
    IN Finish(rollerOff(w4, NoArgs), Nothing, n - 1, bd, forSim)

\* writeNeckProg once past its guard
NeckProgram(specs, elements, forSim) ==
    LET cl == specs.cutLength
        nl == specs.neckLength
        ww == specs.wheelWidth
        pp == getPlungePoints(specs, elements, 5, <<cl + ww>>)
        bd == specs.blankDia
        nd == specs.neckDia
        ca == specs.chamferAngle
        chLen == IF ca < 90 THEN DivTan(Half(bd - nd), ca) ELSE 0
        w1 == RoughPasses(rollerOn(reset, NoArgs), pp.plungePts, 1, specs,
                          forSim)
        w2 == rapidIn(w1, [RAPID_IN_TO |-> nl + chLen])
        w3 == IF chLen # 0
              THEN angle(w2, [ANGLE |-> Deg(ca),
                              TAPER_DOWN_TO |-> Half(bd - nd),
                              TAPER_VELOCITY |-> specs.seg1Feed])
              ELSE axisOne(w2, [PLUNGE_TO |-> Half(bd - nd),
                                RETURN_TO_NEG |-> 0,
                                VELOCITY_AXIS1 |-> specs.seg1Feed])
        w4 == axisTwoOut(w3, [MOVE_OUT_TO |-> cl + ww,
                              VELOCITY_AXIS2 |-> specs.seg2Feed])
        w5 == axisOne(w4, [PLUNGE_TO |-> 0, VELOCITY_AXIS1 |-> 150000,
                           RETURN_TO_NEG |-> 1])
    IN IF pp.err # None
       THEN Outcome(pp.err, None, Nothing, Nothing, 0, FALSE, Nothing)
       ELSE Finish(rollerOff(w5, NoArgs), Returned(pp), Len(pp.plungePts), bd, forSim)

\* the guard taken as  nw <= 0
NoNeckAtAll(specs) == specs.neckLength - specs.cutLength <= 0

\* nw = nl - cl;  if nw < ww
TooWide(specs) == specs.neckLength - specs.cutLength < specs.wheelWidth

writeNeckProg(specs, elements, forSim) ==
    IF TooWide(specs)
    THEN Outcome(None, "The wheel is too wide for the neck.", Nothing,
                 Nothing, 0, FALSE, Nothing)
    ELSE NeckProgram(specs, elements, forSim)

\* the finish moves shared by the two spindown programs
SpindownFinish(ttw, specs, elements, te) ==
    LET w1 == rapidIn(ttw, [RAPID_IN_TO |-> El(elements, 3)[1]])
        w2 == IF specs.chamferAngle < 90
              THEN angle(w1, [ANGLE |-> Deg(specs.chamferAngle),
                              TAPER_DOWN_TO |-> El(te, 1)[2]
                                                  + specs.backTaper,
                              TAPER_VELOCITY |-> specs.seg1Feed])
              ELSE axisOne(w1, [PLUNGE_TO |-> El(te, 1)[2] + specs.backTaper,
                                RETURN_TO_NEG |-> 0,
                                VELOCITY_AXIS1 |-> specs.seg1Feed])
    IN backTaper(w2, [TAPER_UP_TO |-> El(te, 1)[2],
                      TAPER_OUT_TO |-> El(te, 1)[1],
                      TAPER_VELOCITY |-> specs.seg2Feed])

writeSpindown1Prog(specs, elements, forSim) ==
    LET pp == getPlungePoints(specs, elements, 3, NoStartZ)
        w1 == RoughPasses(rollerOn(reset, NoArgs), pp.plungePts, 1, specs,
                          forSim)
        w2 == SpindownFinish(w1, specs, elements, pp.te)
    IN IF pp.err # None
       THEN Outcome(pp.err, None, Nothing, Nothing, 0, FALSE, Nothing)
       ELSE Finish(rollerOff(w2, NoArgs), Returned(pp), Len(pp.plungePts),
                   specs.blankDia, forSim)

writeSpindown2Prog(specs, elements, forSim) ==
    LET pp == getPlungePoints(specs, elements, 3, NoStartZ)
        w1 == RoughPasses(rollerOn(reset, NoArgs), pp.plungePts, 1, specs,
                          forSim)
        w2 == SpindownFinish(w1, specs, elements, pp.te)
        w3 == angle(w2, [ANGLE |-> Deg(Half(specs.tipAngle)),
                         TAPER_DOWN_TO |-> El(pp.te, 0)[2] + 100,
                         TAPER_VELOCITY |-> specs.seg3Feed])
    IN IF pp.err # None
       THEN Outcome(pp.err, None, Nothing, Nothing, 0, FALSE, Nothing)
       ELSE Finish(rollerOff(w3, NoArgs), Returned(pp), Len(pp.plungePts),
                   specs.blankDia, forSim)

writeTaper1Prog(specs, elements, forSim) ==
    LET pp == getPlungePoints(specs, elements, 2, NoStartZ)
        w1 == RoughPasses(rollerOn(reset, NoArgs), pp.plungePts, 1, specs,
                          forSim)
        bd == specs.blankDia
        td == specs.tipDia
        ia == specs.includedAngle
        grindLen == DivTan(Half(bd - td), Half(ia))
        w2 == rapidIn(w1, [RAPID_IN_TO |-> grindLen])
        w3 == angle(w2, [ANGLE |-> Deg(Half(ia)),
                         TAPER_DOWN_TO |-> Half(bd - td),
                         TAPER_VELOCITY |-> specs.seg1Feed])
    IN IF pp.err # None
       THEN Outcome(pp.err, None, Nothing, Nothing, 0, FALSE, Nothing)
       ELSE Finish(rollerOff(w3, NoArgs), Returned(pp), Len(pp.plungePts), bd, forSim)

writeTaper2Prog(specs, elements, forSim) ==
    LET pp == getPlungePoints(specs, elements, 3, NoStartZ)
        w1 == RoughPasses(rollerOn(reset, NoArgs), pp.plungePts, 1, specs,
                          forSim)
        bd == specs.blankDia
        td == specs.tipDia
        ia == specs.includedAngle
        w2 == rapidIn(w1, [RAPID_IN_TO |-> El(elements, 3)[1]])
        w3 == IF specs.chamferAngle < 90
              THEN angle(w2, [ANGLE |-> Deg(specs.chamferAngle),
                              TAPER_DOWN_TO |-> El(pp.te, 2)[2],
                              TAPER_VELOCITY |-> specs.seg1Feed])
              ELSE axisOne(w2, [PLUNGE_TO |-> El(pp.te, 2)[2],
                                RETURN_TO_NEG |-> 0,
                                TAPER_VELOCITY |-> specs.seg1Feed])
        w4 == angle(w3, [ANGLE |-> Deg(Half(ia)),
                         TAPER_DOWN_TO |-> Half(bd - td),
                         TAPER_VELOCITY |-> specs.seg2Feed])
    IN IF pp.err # None
       THEN Outcome(pp.err, None, Nothing, Nothing, 0, FALSE, Nothing)
       ELSE Finish(rollerOff(w4, NoArgs), Returned(pp), Len(pp.plungePts), bd, forSim)

(***************************************************************************)
(* TTWidget: the handlers.  Tool specs are the ones the six tool           *)
(* definitions are constructed with, and specs one accepted edit at a      *)
(* time away from them (every one of them passes its family's              *)
(* checkGeometry).  Angles are kept to those of the tangent table.         *)
(***************************************************************************)
NeckDefaults ==
    [blankDia |-> 5000, blankLength |-> 30000, neckDia |-> 4700,
     cutLength |-> 10000, neckLength |-> 20000, chamferAngle |-> 45]
SpindownSpecs ==
    [blankDia |-> 5000, blankLength |-> 50000, spinDia |-> 3175,
     spinLength |-> 5150, chamferAngle |-> 45]
Spindown2Defaults ==
    [blankDia |-> 5000, blankLength |-> 30000, spinDia |-> 3750,
     spinLength |-> 10000, tipAngle |-> 118, chamferAngle |-> 45]
TaperSpecs ==
    [blankDia |-> 5000, blankLength |-> 30000, tipDia |-> 2500,
     includedAngle |-> 60]
Taper2Specs ==
    [blankDia |-> 5000, blankLength |-> 20000, tipDia |-> 1250,
     includedAngle |-> 60, taperLength |-> 2000, chamferAngle |-> 30]

ToolSpecs(idx) ==
    CASE idx = 0 -> {[PointDefaults EXCEPT !.tipAngle = t] : t \in {60, 90, 118}}
      [] idx = 1 -> {[NeckDefaults EXCEPT !.neckLength = nl,
                                          !.chamferAngle = ca]
                       : nl \in {12400, 20000}, ca \in {45, 90}}
      [] idx = 2 -> {[SpindownSpecs EXCEPT !.chamferAngle = ca]
                       : ca \in {45, 90}}
      [] idx = 3 -> {[Spindown2Defaults EXCEPT !.tipAngle = t,
                                               !.chamferAngle = ca]
                       : t \in {90, 118}, ca \in {45, 90}}
      [] idx = 4 -> {[TaperSpecs EXCEPT !.includedAngle = ia]
                       : ia \in {60, 90}}
      [] idx = 5 -> {[Taper2Specs EXCEPT !.chamferAngle = ca]
                       : ca \in {30, 90}}

\* TTToolView.getToolProfile(): the elements of the definition's profile
getToolProfile(idx, s) ==
    CASE idx = 0 -> PointProfile(s)
      [] idx = 1 -> NeckProfile(s)
      [] idx = 2 -> SpindownProfile(s)
      [] idx = 3 -> Spindown2Profile(s)
      [] idx = 4 -> TaperProfile(s)
      [] idx = 5 -> Taper2Profile(s)

GrindSpecs ==
    [wheelWidth : {2500, 5000, 10000}, wheelOverlap : {50, 90},
     backTaper : {defaultBackTaper}]

FeedSpecs ==
    [plungeFeed : {defaultFeed}, seg1Feed : {defaultFeed, 1000},
     seg2Feed : {defaultFeed}, seg3Feed : {defaultFeed}]

InvalidEdits == {"none", "wheelWidth", "wheelOverlap", "backTaper", "feed"}

OneFieldApart(s, t) ==
    /\ DOMAIN s = DOMAIN t
    /\ Cardinality({k \in DOMAIN s : s[k] # t[k]}) = 1

Message(text) == [NoOutcome EXCEPT !.msg = text]

\* onWriteProgram(forSim), as called now
onWriteProgram(forSim) ==
    IF invalidEdit = "wheelWidth"
    THEN Message("The wheel width value is not valid.")
    ELSE IF invalidEdit = "wheelOverlap"
    THEN Message("The wheel overlap % value is not valid.")
    ELSE IF invalidEdit = "backTaper"
    THEN Message("The back taper value is not valid.")
    ELSE IF invalidEdit = "feed" THEN NoOutcome
    ELSE LET specs == mergeDicts(mergeDicts(toolSpecs, grind), feeds)
             elements == getToolProfile(grindType, toolSpecs)
         IN CASE grindType = 0 -> writePointProg(specs, forSim)
              [] grindType = 1 -> writeNeckProg(specs, elements, forSim)
              [] grindType = 2 -> writeSpindown1Prog(specs, elements, forSim)
              [] grindType = 3 -> writeSpindown2Prog(specs, elements, forSim)
              [] grindType = 4 -> writeTaper1Prog(specs, elements, forSim)
              [] grindType = 5 -> writeTaper2Prog(specs, elements, forSim)

Untouched == UNCHANGED <<writerVars, simVars, plungeVars, kernelVars, extraVars>>

\* cboGrindType.currentIndexChanged: the tool view shows the definition of
\* the family, with the specs its accepted edits left it
OnGrindTypeChanged ==
    /\ enabled
    /\ \E idx \in 0..5 :
         /\ idx # grindType
         /\ grindType' = idx
         /\ toolSpecs' \in ToolSpecs(idx)
    /\ out' = NoOutcome
    /\ UNCHANGED <<grind, feeds, invalidEdit, simChecked, enabled>>
    /\ Untouched

\* a dimension's edit box accepts a value: TTToolDef.config of one spec
EditToolSpec ==
    /\ enabled
    /\ \E s \in ToolSpecs(grindType) :
         OneFieldApart(s, toolSpecs) /\ toolSpecs' = s
    /\ out' = NoOutcome
    /\ UNCHANGED <<grindType, grind, feeds, invalidEdit, simChecked, enabled>>
    /\ Untouched

\* a valid value is typed into the wheel width or the overlap edit
EditGrindSpec ==
    /\ enabled
    /\ \E g \in GrindSpecs : OneFieldApart(g, grind) /\ grind' = g
    /\ out' = NoOutcome
    /\ UNCHANGED <<grindType, toolSpecs, feeds, invalidEdit, simChecked,
                   enabled>>
    /\ Untouched

\* a valid value is typed into a feed edit
EditFeed ==
    /\ enabled
    /\ \E f \in FeedSpecs : OneFieldApart(f, feeds) /\ feeds' = f
    /\ out' = NoOutcome
    /\ UNCHANGED <<grindType, toolSpecs, grind, invalidEdit, simChecked,
                   enabled>>
    /\ Untouched

\* text that is not a valid value is typed into an edit, or is repaired
EditValidity ==
    /\ enabled
    /\ \E e \in InvalidEdits : e # invalidEdit /\ invalidEdit' = e
    /\ out' = NoOutcome
    /\ UNCHANGED <<grindType, toolSpecs, grind, feeds, simChecked, enabled>>
    /\ Untouched

\* butWrite.clicked
OnWriteProgram ==
    /\ enabled
    /\ out' = onWriteProgram(FALSE)
    /\ UNCHANGED <<grindType, toolSpecs, grind, feeds, invalidEdit,
                   simChecked, enabled>>
    /\ Untouched

\* butSimulate.toggled(True): onSimulate asks for the program twice and
\* disables the widget only when it got one
OnSimulate ==
    /\ ~simChecked
    /\ simChecked' = TRUE
    /\ out' = onWriteProgram(TRUE)
    /\ enabled' = (onWriteProgram(TRUE).ret = Nothing)
    /\ UNCHANGED <<grindType, toolSpecs, grind, feeds, invalidEdit>>
    /\ Untouched

\* butSimulate.toggled(False): simDone
OnSimDone ==
    /\ simChecked
    /\ simChecked' = FALSE
    /\ enabled' = TRUE
    /\ out' = NoOutcome
    /\ UNCHANGED <<grindType, toolSpecs, grind, feeds, invalidEdit>>
    /\ Untouched

NextWidget ==
    \/ OnGrindTypeChanged
    \/ EditToolSpec
    \/ EditGrindSpec
    \/ EditFeed
    \/ EditValidity
    \/ OnWriteProgram
    \/ OnSimulate
    \/ OnSimDone

SpecWidget == Init /\ [][NextWidget]_vars

(***************************************************************************)
(* SpecPlunge: getPlungePoints called on its own.  The profiles are those  *)
(* of the six families, as they are and with one element replaced by an    *)
(* arc descriptor; i and startZ range over the values the emitters pass    *)
(* and over others.                                                        *)
(***************************************************************************)
\* the element at index k (Python's) turned into an arc that ends where the
\* element was, about a centre on the axis
ArcAt(elements, k) ==
    [elements EXCEPT ![k + 1] = <<@, <<@[1], 0>>, "clw">>]

PlungeProfiles(idx, s) ==
    LET p == getToolProfile(idx, s)
    IN {p} \cup {ArcAt(p, k) : k \in 1..(Len(p) - 1)}

PlungeInputs ==
    UNION {UNION {UNION {
        {<<mergeDicts(s, g), p, i, z>> :
            i \in {j \in {2, 3, 5} : j < Len(p)},
            z \in {NoStartZ, <<1000>>, <<10000 + g.wheelWidth>>}}
        : p \in PlungeProfiles(idx, s)}
        : s \in ToolSpecs(idx)}
        : idx \in 0..5, g \in GrindSpecs}

InitPlunge ==
    /\ orderNumber = reset.orderNumber
    /\ prog = reset.prog
    /\ IdleFrame
    /\ WidgetInit
    /\ ExtraIdle
    /\ gpArgs \in PlungeInputs
    /\ gpResult = <<>>
    /\ KernelIdle

CallGetPlungePoints ==
    /\ gpArgs # <<>>
    /\ gpResult = <<>>
    /\ gpResult' = <<getPlungePoints(gpArgs[1], gpArgs[2], gpArgs[3],
                                     gpArgs[4])>>
    /\ UNCHANGED <<gpArgs, writerVars, simVars, widgetVars, kernelVars, extraVars>>

NextPlunge == CallGetPlungePoints

SpecPlunge == InitPlunge /\ [][NextPlunge]_vars

(***************************************************************************)
(* tttooldef.py: checkGeometry of the six tool families.  A call is        *)
(* [raised, value]: the exception it raised (None if it returned) and the  *)
(* bool it returned.  Angles here may be zero, negative or beyond 90       *)
(* degrees, so tan is taken with its sign; math.tan(math.radians(a)) is    *)
(* 0.0 for a = 0 alone, and a float division by it raises.                 *)
(***************************************************************************)
CgReturn(b) == [raised |-> None, value |-> b]
CgRaise(e) == [raised |-> e, value |-> FALSE]

TanIsZero(a) == a = 0

\* 1000 * tan(radians(a)), a % 180 neither 0 nor 90
TanSigned(a) ==
    LET r == a % 180
    IN IF r < 90 THEN TanMilli(r) ELSE -TanMilli(180 - r)

\* v / tan(radians(a)), a # 0
DivTanSigned(v, a) ==
    IF a % 180 = 90 THEN 0 ELSE RoundDiv(v * 1000, TanSigned(a))

\* v * tan(radians(a)), a % 180 # 90
MulTanSigned(v, a) == RoundDiv(v * TanSigned(a), 1000)

\* algo.tipLength for any included angle but 0
tipLengthSigned(includedAngle, dia) ==
    DivTanSigned(Half(dia), Half(includedAngle))

\* any(map(lambda x : x <= 0, d.values()))
AnyNotPositive(d) == \E k \in DOMAIN d : d[k] <= 0

\* a point check that lets the blank end where the tip ends
PointCheckGeometryNotStrict(d) ==
    IF TanIsZero(d.tipAngle) THEN CgRaise("ZeroDivisionError")
    ELSE LET tl == tipLengthSigned(d.tipAngle, d.blankDia)
         IN CgReturn(/\ d.blankDia > 0
                     /\ d.blankLength > 0
                     /\ d.tipAngle > 0
                     /\ d.tipAngle < 180
                     /\ d.blankLength >= tl)

\* TTPointDef.checkGeometry: the tip length is computed before any test
PointCheckGeometry(d) ==
    IF TanIsZero(d.tipAngle) THEN CgRaise("ZeroDivisionError")
    ELSE LET tl == tipLengthSigned(d.tipAngle, d.blankDia)
         IN CgReturn(/\ d.blankDia > 0
                     /\ d.blankLength > 0
                     /\ d.tipAngle > 0
                     /\ d.tipAngle < 180
                     /\ d.blankLength > tl)

\* TTNeckDef.checkGeometry: chLen is computed before the "all > 0" test
NeckCheckGeometry(d) ==
    IF TanIsZero(d.chamferAngle) THEN CgRaise("ZeroDivisionError")
    ELSE LET chLen == DivTanSigned(Half(d.blankDia - d.neckDia),
                                   d.chamferAngle)
         IN IF AnyNotPositive(d) THEN CgReturn(FALSE)
            ELSE CgReturn(/\ d.neckDia < d.blankDia
                          /\ d.blankLength > d.neckLength
                          /\ d.neckLength > d.cutLength
                          /\ d.chamferAngle <= 90
                          /\ chLen < d.blankLength - d.neckLength)

\* TTSpindownDef.checkGeometry, the same order
SpindownCheckGeometry(d) ==
    IF TanIsZero(d.chamferAngle) THEN CgRaise("ZeroDivisionError")
    ELSE LET chLen == DivTanSigned(Half(d.blankDia - d.spinDia),
                                   d.chamferAngle)
         IN IF AnyNotPositive(d) THEN CgReturn(FALSE)
            ELSE CgReturn(/\ d.spinDia < d.blankDia
                          /\ d.chamferAngle <= 90
                          /\ chLen < d.blankLength - d.spinLength)

\* TTSpindownDef2.checkGeometry: the check of the base class comes first and
\* has already refused every value <= 0, the tip angle included
Spindown2CheckGeometry(d) ==
    LET sup == SpindownCheckGeometry(d)
    IN IF sup.raised # None THEN sup
       ELSE IF ~sup.value THEN CgReturn(FALSE)
       ELSE LET tipLen == tipLengthSigned(d.tipAngle, d.spinDia)
            IN IF AnyNotPositive(d) THEN CgReturn(FALSE)
               ELSE CgReturn(tipLen < d.spinLength /\ d.tipAngle < 180)

\* TTTaperDef.checkGeometry: the "all > 0" test comes first
TaperCheckGeometry(d) ==
    IF AnyNotPositive(d) THEN CgReturn(FALSE)
    ELSE LET dx == DivTanSigned(Half(d.blankDia - d.tipDia),
                                Half(d.includedAngle))
         IN CgReturn(/\ d.tipDia < d.blankDia
                     /\ dx < d.blankLength
                     /\ d.includedAngle < 180)

\* TTTaperDef2.checkGeometry
Taper2CheckGeometry(d) ==
    IF AnyNotPositive(d) THEN CgReturn(FALSE)
    ELSE IF d.chamferAngle > 90 THEN CgReturn(FALSE)
    ELSE LET taperBigEndDia ==
                 MulTanSigned(d.taperLength, Half(d.includedAngle)) * 2
                 + d.tipDia
         IN IF taperBigEndDia >= d.blankDia THEN CgReturn(FALSE)
            ELSE LET chLen == DivTanSigned(Half(d.blankDia - taperBigEndDia),
                                           d.chamferAngle)
                 IN CgReturn(/\ d.tipDia < d.blankDia
                             /\ d.taperLength < d.blankLength
                             /\ d.includedAngle < 180
                             /\ d.taperLength + chLen < d.blankLength)

\* self.specs of the tool definition the view shows for a grind type
CurrentSpecs(idx) ==
    CASE idx = 0 -> PointDefaults
      [] idx = 1 -> NeckDefaults
      [] idx = 2 -> SpindownSpecs
      [] idx = 3 -> Spindown2Defaults
      [] idx = 4 -> TaperSpecs
      [] idx = 5 -> Taper2Specs

\* checkGeometry(specs) of the family idx: d = copy(self.specs);
\* d.update(specs)
checkGeometry(idx, specs) ==
    LET d == mergeDicts(CurrentSpecs(idx), specs)
    IN CASE idx = 0 -> PointCheckGeometry(d)
         [] idx = 1 -> NeckCheckGeometry(d)
         [] idx = 2 -> SpindownCheckGeometry(d)
         [] idx = 3 -> Spindown2CheckGeometry(d)
         [] idx = 4 -> TaperCheckGeometry(d)
         [] idx = 5 -> Taper2CheckGeometry(d)

(***************************************************************************)
(* SpecGeom: checkGeometry called with one field of the current specs      *)
(* replaced.  Lengths: negative, zero, the tip length of the default       *)
(* point (1502), one more, a diameter, more than any blank.  Angles:       *)
(* negative, zero, usual, right, obtuse, straight and reflex.              *)
(***************************************************************************)
CandidateValues(idx, field) ==
    IF field \in {"tipAngle", "includedAngle"}
    THEN {-120, 0, 60, 90, 118, 120, 240} \cup (IF idx = 5 THEN {} ELSE {180})
    ELSE IF field = "chamferAngle" THEN {-45, 0, 30, 45, 90, 120}
    ELSE {-1000, 0, 1502, 1503, 5000, 60000}

GeometryInputs ==
    UNION {{<<idx, field, v>> : v \in CandidateValues(idx, field)}
           : idx \in 0..5,
             field \in {"blankDia", "blankLength", "tipAngle", "neckDia",
                        "cutLength", "neckLength", "chamferAngle", "spinDia",
                        "spinLength", "tipDia", "includedAngle",
                        "taperLength"} }

InitGeom ==
    /\ orderNumber = reset.orderNumber
    /\ prog = reset.prog
    /\ IdleFrame
    /\ WidgetInit
    /\ ExtraIdle
    /\ PlungeIdle
    /\ cgArgs \in {a \in GeometryInputs : a[2] \in DOMAIN CurrentSpecs(a[1])}
    /\ cgResult = <<>>
    /\ DimIdle
    /\ ArcIdle

CallCheckGeometry ==
    /\ cgArgs # <<>>
    /\ cgResult = <<>>
    /\ cgResult' = <<checkGeometry(cgArgs[1],
                                   [k \in {cgArgs[2]} |-> cgArgs[3]])>>
    /\ UNCHANGED <<cgArgs, dim, arc, writerVars, simVars, widgetVars,
                   plungeVars, extraVars>>

NextGeom == CallCheckGeometry

SpecGeom == InitGeom /\ [][NextGeom]_vars

(***************************************************************************)
(* SpecDim: one dimension item, a LinearDim over two points or an          *)
(* AngleDim, built with its default specs, put into and taken out of a     *)
(* scene and configured one key at a time.                                 *)
(***************************************************************************)
RefPoints == {<<0, 0>>, <<10, 0>>, <<0, 10>>, <<10, 10>>}
LabelPositions == {<<px, py>> : px \in {-5, 0, 5, 15}, py \in {-5, 0, 5, 15}}
Forces == {None, "horizontal", "vertical"}
RefLines ==
    {<< <<-2, 0>>, <<2, 0>> >>, << <<0, -2>>, <<0, 2>> >>,
     << <<-2, 2>>, <<2, 2>> >>, << <<0, 0>>, <<0, 0>> >>}
AngleLabelPositions == {<<1, 1>>, <<0, 0>>, <<0, 2>>}

InitDim ==
    /\ orderNumber = reset.orderNumber
    /\ prog = reset.prog
    /\ IdleFrame
    /\ WidgetInit
    /\ ExtraIdle
    /\ PlungeIdle
    /\ GeometryIdle
    /\ dim \in {NewDimension("LinearDim", LinearDimDefaults),
                NewDimension("AngleDim", AngleDimDefaults)}
    /\ ArcIdle

DimUntouched ==
    UNCHANGED <<cgArgs, cgResult, arc, writerVars, simVars, widgetVars,
                plungeVars, extraVars>>

\* dim.config(specMap)
Config(specMap) ==
    LET d == [dim EXCEPT !.raised = None, !.last = "config"]
    IN /\ dim' = IF dim.cls = "LinearDim" THEN LinearDimConfig(d, specMap)
                 ELSE AngleDimConfig(d, specMap)
       /\ DimUntouched

ConfigRef ==
    /\ dim.cls = "LinearDim"
    /\ \/ \E p \in RefPoints : Config([ref1 |-> p])
       \/ \E p \in RefPoints : Config([ref2 |-> p])

ConfigPos ==
    /\ dim.cls = "LinearDim"
    /\ \E p \in LabelPositions : Config([pos |-> p])

ConfigForce ==
    /\ dim.cls = "LinearDim"
    /\ \E f \in Forces : Config([force |-> f])

ConfigValue ==
    \E v \in {2500, 30000} : Config([value |-> v])

ConfigLine ==
    /\ dim.cls = "AngleDim"
    /\ \/ \E l \in RefLines : Config([line1 |-> l])
       \/ \E l \in RefLines : Config([line2 |-> l])

ConfigAnglePos ==
    /\ dim.cls = "AngleDim"
    /\ \E p \in AngleLabelPositions : Config([pos |-> p])

\* scene.addItem(dim) / scene.removeItem(dim)
SceneAddItem ==
    /\ ~dim.inScene
    /\ dim' = [dim EXCEPT !.inScene = TRUE, !.raised = None,
                          !.last = "addItem"]
    /\ DimUntouched

SceneRemoveItem ==
    /\ dim.inScene
    /\ dim' = [dim EXCEPT !.inScene = FALSE, !.raised = None,
                          !.last = "removeItem"]
    /\ DimUntouched

NextDim ==
    \/ ConfigRef
    \/ ConfigPos
    \/ ConfigForce
    \/ ConfigValue
    \/ ConfigLine
    \/ ConfigAnglePos
    \/ SceneAddItem
    \/ SceneRemoveItem

SpecDim == InitDim /\ [][NextDim]_vars

(***************************************************************************)
(* SpecArc: one Arc variable; Arc(m), config(m), radius(value) and         *)
(* Arc.fromAngles with radii below, at and above zero and angles that      *)
(* are equal, apart, and apart by a whole turn.                            *)
(***************************************************************************)
Radii == {-5, 0, 5, 10}
Angles == {-90, 0, 90, 360, 450}
Spans == {-90, 90}

InitArc ==
    /\ orderNumber = reset.orderNumber
    /\ prog = reset.prog
    /\ IdleFrame
    /\ WidgetInit
    /\ ExtraIdle
    /\ PlungeIdle
    /\ GeometryIdle
    /\ DimIdle
    /\ ArcIdle

ArcUntouched ==
    UNCHANGED <<cgArgs, cgResult, dim, writerVars, simVars, widgetVars,
                plungeVars, extraVars>>

ArcCall(op, args, r) ==
    /\ arc' = [m |-> r.m, raised |-> r.raised,
               call |-> [op |-> op, args |-> args]]
    /\ ArcUntouched

\* a = Arc(m), with the radius alone, without it, or with every key
ArcInit ==
    \/ \E r \in Radii : ArcCall("__init__", <<>>, ArcNew(arc.m, [radius |-> r]))
    \/ \E s \in Spans :
           ArcCall("__init__", <<>>, ArcNew(arc.m, [start |-> 0, span |-> s]))
    \/ \E r \in Radii :
           ArcCall("__init__", <<>>,
                   ArcNew(arc.m, [ArcDefaults EXCEPT !.radius = r]))

\* a.config(m)
ArcConfigCall ==
    \/ \E r \in Radii :
           ArcCall("config", <<>>, ArcConfig(arc.m, [radius |-> r]))
    \/ \E s \in Spans :
           ArcCall("config", <<>>, ArcConfig(arc.m, [span |-> s]))

\* a.radius(value)
ArcRadiusCall ==
    \E v \in Radii : ArcCall("radius", <<>>, ArcRadius(arc.m, v))

\* a = Arc.fromAngles(a1, a2, radius, cclw)
ArcFromAngles ==
    \E a1 \in Angles, a2 \in Angles, r \in Radii, cclw \in BOOLEAN :
        ArcCall("fromAngles", <<a1, a2, r, cclw>>,
                fromAngles(arc.m, a1, a2, r, cclw))

NextArc ==
    \/ ArcInit
    \/ ArcConfigCall
    \/ ArcRadiusCall
    \/ ArcFromAngles

SpecArc == InitArc /\ [][NextArc]_vars

(***************************************************************************)
(* Path2d of path2d.py.  _elements is a sequence; a point element is       *)
(* <<x, y>>, an arc element is <<<<endX, endY>>, <<centerX, centerY>>,     *)
(* arcDir>>.  Python lists are objects: a list handed to the caller can    *)
(* share its inner lists with the path.  refs records that sharing, item   *)
(* by item: refs[i] = k says that item i of the list in the caller's hand  *)
(* is the very list object that holds the end point of element k of the    *)
(* path, refs[i] = 0 that it is an object of its own.                      *)
(***************************************************************************)
MaxElements == 3    \* longest path built in SpecPath
MaxMutations == 1   \* assignments the caller makes into a list it was handed

Path2dException == "Path2dException"

\* Path2d.__init__: `if startPoint:` is false for None and for an empty list
Path2dNew(startPoint) ==
    IF startPoint # <<>> THEN <<startPoint>> ELSE <<>>

isEmpty(els) == Len(els) = 0

isValid(els) == Len(els) >= 2 /\ Len(els[1]) = 2

\* copy.deepcopy(self._elements): equal value, no shared object
elements(els) == [ret |-> els, refs |-> [i \in 1..Len(els) |-> 0]]

\* [e if len(e) == 2 else e[0] for e in self._elements]: a new outer list
\* whose items are the path's own inner lists
endPoints(els) ==
    [ret |-> [i \in 1..Len(els) |->
                 IF Len(els[i]) = 2 THEN els[i] ELSE els[i][1]],
     refs |-> [i \in 1..Len(els) |-> i]]

moveTo(els, px, py) == [elements |-> <<<<px, py>>>>, raised |-> None]

lineToUnguarded(els, px, py) ==
    [elements |-> Append(els, <<px, py>>), raised |-> None]

lineToRestart(els, px, py) ==
    IF isEmpty(els) THEN [elements |-> els, raised |-> Path2dException]
    ELSE [elements |-> <<els[1], <<px, py>>>>, raised |-> None]

lineTo(els, px, py) ==
    IF isEmpty(els) THEN [elements |-> els, raised |-> Path2dException]
    ELSE [elements |-> Append(els, <<px, py>>), raised |-> None]

arcTo(els, endX, endY, centerX, centerY, arcDir) ==
    IF isEmpty(els) THEN [elements |-> els, raised |-> Path2dException]
    ELSE [elements |-> Append(els, <<<<endX, endY>>, <<centerX, centerY>>,
                                     arcDir>>),
          raised |-> None]

\* degrees(atan2(dy, dx)) % 360.0 for the eight compass directions;
\* atan2(0, 0) is 0
Atan2Deg(dy, dx) ==
    CASE dy = 0 /\ dx >= 0 -> 0
      [] dy > 0 /\ dx = dy -> 45
      [] dy > 0 /\ dx = 0 -> 90
      [] dy > 0 /\ dx = -dy -> 135
      [] dy = 0 /\ dx < 0 -> 180
      [] dy < 0 /\ dx = dy -> 225
      [] dy < 0 /\ dx = 0 -> 270
      [] dy < 0 /\ dx = -dy -> 315

\* hypot(dx, dy) along an axis
Hypot(dx, dy) ==
    CASE dx = 0 -> Abs(dy)
      [] dy = 0 -> Abs(dx)

\* the span of lines 121-124
PathSpan(sa, ea, arcDir) ==
    IF arcDir = "cclw" THEN (IF ea < sa THEN ea + 360 ELSE ea) - sa
    ELSE -((IF sa < ea THEN sa + 360 ELSE sa) - ea)

\* the QPainterPath calls made for element k; (sx, sy) is the end point of
\* the element before it
PainterCalls(els, k) ==
    LET e == els[k]
        s == endPoints(els).ret[k - 1]
    IN IF Len(e) = 2 THEN << <<"lineTo", e[1], e[2]>> >>
       ELSE LET r == Hypot(e[1][1] - e[2][1], e[1][2] - e[2][2])
                d == r * 2
                sa == Atan2Deg(s[2] - e[2][2], s[1] - e[2][1])
                ea == Atan2Deg(e[1][2] - e[2][2], e[1][1] - e[2][1])
                rect == <<e[2][1] - r, e[2][2] + r, d, -d>>
            IN << <<"arcMoveTo", rect, sa>>,
                  <<"arcTo", rect, sa, PathSpan(sa, ea, e[3])>> >>

RECURSIVE PainterFrom(_, _)
PainterFrom(els, k) ==
    IF k > Len(els) THEN <<>>
    ELSE PainterCalls(els, k) \o PainterFrom(els, k + 1)

toQPainterPath(els) ==
    IF ~isValid(els) THEN [p |-> <<>>, raised |-> Path2dException]
    ELSE [p |-> (IF Len(els[2]) = 2
                 THEN << <<"moveTo", els[1][1], els[1][2]>> >>
                 ELSE <<>>) \o PainterFrom(els, 2),
          raised |-> None]

(***************************************************************************)
(* SpecPath: one Path2d, its caller building it, querying it, painting it  *)
(* and writing into the list the last query handed out.                    *)
(***************************************************************************)
PathPoints == {<<1, 0>>, <<0, 1>>, <<0, -1>>}
PathCentre == <<0, 0>>
ArcDirs == {"cclw", "clw"}
\* the value the caller writes into a list it was handed: the centre's
Scribble == PathCentre[1]

PathObject(els) ==
    [elements |-> els, op |-> "__init__", args |-> <<>>, raised |-> None,
     ret |-> <<>>, refs |-> <<>>, n |-> 0]

InitPath ==
    /\ orderNumber = reset.orderNumber
    /\ prog = reset.prog
    /\ IdleFrame
    /\ WidgetInit
    /\ PlungeIdle
    /\ KernelIdle
    /\ path \in {PathObject(Path2dNew(sp)) : sp \in {<<>>} \cup PathPoints}
    /\ lc = Nothing
    /\ tdef = Nothing
    /\ anim = Nothing

PathUntouched ==
    UNCHANGED <<writerVars, simVars, widgetVars, plungeVars, kernelVars,
                lc, tdef, anim>>

\* a method that returns None or raises
PathCall(op, args, r, n) ==
    /\ path' = [elements |-> r.elements, op |-> op, args |-> args,
                raised |-> r.raised, ret |-> <<>>, refs |-> <<>>, n |-> n]
    /\ PathUntouched

\* a query: the path stays, the caller holds the list
PathQuery(op, q) ==
    /\ path' = [path EXCEPT !.op = op, !.args = <<>>, !.raised = None,
                            !.ret = q.ret, !.refs = q.refs]
    /\ PathUntouched

MoveTo ==
    \E pt \in PathPoints :
        PathCall("moveTo", pt, moveTo(path.elements, pt[1], pt[2]), 0)

LineTo ==
    /\ Len(path.elements) < MaxElements
    /\ \E pt \in PathPoints :
           PathCall("lineTo", pt, lineTo(path.elements, pt[1], pt[2]),
                    path.n)

ArcTo ==
    /\ Len(path.elements) < MaxElements
    /\ \E pt \in PathPoints, dir \in ArcDirs :
           PathCall("arcTo", <<pt[1], pt[2], PathCentre[1], PathCentre[2]>>,
                    arcTo(path.elements, pt[1], pt[2], PathCentre[1],
                          PathCentre[2], dir),
                    path.n)

Elements == PathQuery("elements", elements(path.elements))

EndPoints == PathQuery("endPoints", endPoints(path.elements))

ToQPainterPath ==
    LET r == toQPainterPath(path.elements)
    IN /\ path' = [path EXCEPT !.op = "toQPainterPath", !.args = <<>>,
                               !.raised = r.raised, !.ret = r.p,
                               !.refs = <<>>]
       /\ PathUntouched

HandOps == {"elements", "endPoints"}
MutOps == {"setItem", "setCoord", "setArcCoord"}
Handed == path.op \in HandOps \cup MutOps

\* lst[i] = [Scribble, Scribble]: the outer list is the caller's own
SetItem ==
    /\ Handed
    /\ path.n < MaxMutations
    /\ \E i \in 1..Len(path.ret) :
           path' = [path EXCEPT !.op = "setItem", !.args = <<i>>,
                                !.ret[i] = <<Scribble, Scribble>>,
                                !.refs[i] = 0, !.n = @ + 1]
    /\ PathUntouched

\* the path's elements after lst[i][j] = v when item i is shared with
\* element k
Written(els, k, j, v) ==
    IF k = 0 THEN els
    ELSE IF Len(els[k]) = 2 THEN [els EXCEPT ![k][j] = v]
    ELSE [els EXCEPT ![k][1][j] = v]

\* lst[i][j] = Scribble for an item that is a point
SetCoord ==
    /\ Handed
    /\ path.n < MaxMutations
    /\ \E i \in 1..Len(path.ret), j \in 1..2 :
           /\ Len(path.ret[i]) = 2
           /\ path' = [path EXCEPT
                          !.op = "setCoord", !.args = <<i, j>>,
                          !.ret[i][j] = Scribble,
                          !.elements = Written(@, path.refs[i], j, Scribble),
                          !.n = @ + 1]
    /\ PathUntouched

\* lst[i][m][j] = Scribble for an item that is an arc element
SetArcCoord ==
    /\ Handed
    /\ path.n < MaxMutations
    /\ \E i \in 1..Len(path.ret), m \in 1..2, j \in 1..2 :
           /\ Len(path.ret[i]) = 3
           /\ path' = [path EXCEPT !.op = "setArcCoord", !.args = <<i, m, j>>,
                                   !.ret[i][m][j] = Scribble, !.n = @ + 1]
    /\ PathUntouched

NextPath ==
    \/ MoveTo
    \/ LineTo
    \/ ArcTo
    \/ Elements
    \/ EndPoints
    \/ ToQPainterPath
    \/ SetItem
    \/ SetCoord
    \/ SetArcCoord

SpecPath == InitPath /\ [][NextPath]_vars

(***************************************************************************)
(* algo.linesCollinear.  A segment (QLineF) is <<x1, y1, x2, y2>>.         *)
(* SpecCollinear: one call for each pair of segments over a grid.          *)
(***************************************************************************)
GridMax == 1        \* largest coordinate of a segment end point

linesCollinear(l1, l2) ==
    LET x1 == l1[1]
        y1 == l1[2]
        x2 == l1[3]
        y2 == l1[4]
        x3 == l2[1]
        y3 == l2[2]
    IN (y1 - y2) * (x1 - x3) = (y1 - y3) * (x1 - x2)

GridPoints == (0..GridMax) \X (0..GridMax)
Segments == {<<p[1], p[2], q[1], q[2]>> : p \in GridPoints, q \in GridPoints}

InitCollinear ==
    /\ orderNumber = reset.orderNumber
    /\ prog = reset.prog
    /\ IdleFrame
    /\ WidgetInit
    /\ PlungeIdle
    /\ KernelIdle
    /\ path = Nothing
    /\ lc \in {[l1 |-> a, l2 |-> b, result |-> <<>>]
                  : a \in Segments, b \in Segments}
    /\ tdef = Nothing
    /\ anim = Nothing

CallLinesCollinear ==
    /\ lc.result = <<>>
    /\ lc' = [lc EXCEPT !.result = <<linesCollinear(lc.l1, lc.l2)>>]
    /\ UNCHANGED <<writerVars, simVars, widgetVars, plungeVars, kernelVars,
                   path, tdef, anim>>

NextCollinear == CallLinesCollinear

SpecCollinear == InitCollinear /\ [][NextCollinear]_vars

(***************************************************************************)
(* TTToolDef.__init__ and TTToolDef.config of tttooldef.py.  The           *)
(* definition is [idx, specs, profile, rebuilt, op, args]: idx names the   *)
(* family (the subclass), profile is the Path2d that _updateProfile left   *)
(* in self._profile, rebuilt says whether the last call made a new one.    *)
(***************************************************************************)
\* self.specs = copy(specs); self._updateProfile()
TTToolDefNew(idx, specs) ==
    [idx |-> idx, specs |-> specs, profile |-> getToolProfile(idx, specs),
     rebuilt |-> TRUE, op |-> "__init__", args |-> NoArgs]

\* a config that updates the specs and keeps the old profile
configStaleProfile(t, specs) ==
    IF \E k \in DOMAIN specs : t.specs[k] # specs[k]
    THEN [t EXCEPT !.specs = mergeDicts(@, specs), !.rebuilt = FALSE,
                   !.op = "config", !.args = specs]
    ELSE [t EXCEPT !.rebuilt = FALSE, !.op = "config", !.args = specs]

\* TTToolDef.config(specs), for keys the definition has
config(t, specs) ==
    IF \E k \in DOMAIN specs : t.specs[k] # specs[k]
    THEN LET upd == mergeDicts(t.specs, specs)
         IN [t EXCEPT !.specs = upd,
                      !.profile = getToolProfile(t.idx, upd),
                      !.rebuilt = TRUE, !.op = "config", !.args = specs]
    ELSE [t EXCEPT !.rebuilt = FALSE, !.op = "config", !.args = specs]

\* checkGeometry(specs) of a definition of family idx whose specs are cur
checkGeometryOf(idx, cur, specs) ==
    LET d == mergeDicts(cur, specs)
    IN CASE idx = 0 -> PointCheckGeometry(d)
         [] idx = 1 -> NeckCheckGeometry(d)
         [] idx = 2 -> SpindownCheckGeometry(d)
         [] idx = 3 -> Spindown2CheckGeometry(d)
         [] idx = 4 -> TaperCheckGeometry(d)
         [] idx = 5 -> Taper2CheckGeometry(d)

(***************************************************************************)
(* SpecToolDef: one definition of each family, configured the two ways     *)
(* the program does it: FloatEdit.keyPressEvent passes the one value its   *)
(* validator accepted (a result > 0 that checkGeometry lets through),      *)
(* TTToolView.fitAll passes nothing.                                       *)
(***************************************************************************)
EditValues(field) ==
    IF field \in {"tipAngle", "includedAngle"} THEN {60, 90, 118}
    ELSE IF field = "chamferAngle" THEN {30, 45, 90}
    ELSE {2500, 5000, 20000, 30000}

\* DimEdit validator: isinstance(result, (int, float)) and result > 0.0 and
\* tdef.checkGeometry({toolTip: result})
Acceptable(t, field, v) ==
    /\ v > 0
    /\ checkGeometryOf(t.idx, t.specs, [k \in {field} |-> v])
           = CgReturn(TRUE)

InitToolDef ==
    /\ orderNumber = reset.orderNumber
    /\ prog = reset.prog
    /\ IdleFrame
    /\ WidgetInit
    /\ PlungeIdle
    /\ KernelIdle
    /\ path = Nothing
    /\ lc = Nothing
    /\ tdef \in {TTToolDefNew(idx, CurrentSpecs(idx)) : idx \in 0..5}
    /\ anim = Nothing

ToolDefUntouched ==
    UNCHANGED <<writerVars, simVars, widgetVars, plungeVars, kernelVars,
                path, lc, anim>>

\* FloatEdit.keyPressEvent on Enter
EditConfig ==
    /\ \E field \in DOMAIN tdef.specs :
           \E v \in EditValues(field) :
               /\ Acceptable(tdef, field, v)
               /\ tdef' = config(tdef, [k \in {field} |-> v])
    /\ ToolDefUntouched

\* TTToolView.fitAll: item.config()
FitAllConfig ==
    /\ tdef' = config(tdef, NoArgs)
    /\ ToolDefUntouched

NextToolDef ==
    \/ EditConfig
    \/ FitAllConfig

SpecToolDef == InitToolDef /\ [][NextToolDef]_vars

(***************************************************************************)
(* GrindAnim of grindanim.py.  The animator is [program, idx, startPos,    *)
(* endPos, grinding, running, raised, started]: running says that the      *)
(* QPropertyAnimation is in state Running, raised names the exception that *)
(* left the last handler.  A position is <<x, y>>, None is <<>>.  The      *)
(* blocks are the records getSimProgram appends to outProg: home, go,      *)
(* line and {'dwell': seconds}.                                            *)
(***************************************************************************)
MaxBlocks == 4      \* longest program handed to GrindAnim.start

rapidIPM == 15      \* GrindAnim.rapidIPM

\* GrindAnim.__init__ and a program in the view's hand
GrindAnimNew(program) ==
    [program |-> program, idx |-> 0, startPos |-> <<>>, endPos |-> <<>>,
     grinding |-> FALSE, running |-> FALSE, raised |-> None,
     started |-> FALSE]

\* self.endPos = QPointF(x, y); self.linearInterp(feed); self.idx += 1
\* QVector2D(self.endPos - self.startPos) is a TypeError while startPos is
\* None; self.anim.start() otherwise
linearInterp(a, block, grinding, feed) ==
    LET b == [a EXCEPT !.grinding = grinding,
                       !.endPos = <<block.x, block.y>>]
    IN IF a.startPos = <<>> THEN [b EXCEPT !.raised = "TypeError"]
       ELSE [b EXCEPT !.running = TRUE, !.idx = @ + 1]

\* GrindAnim.animateSegment, for programs without arcs
RECURSIVE animateSegment(_)
animateSegment(a) ==
    IF a.idx >= Len(a.program) THEN a
    ELSE LET block == a.program[a.idx + 1]
         IN CASE block.tag = "home" ->
                   IF a.startPos = <<>>
                   THEN animateSegment(
                            [a EXCEPT !.grinding = FALSE,
                                      !.startPos = <<block.x, block.y>>,
                                      !.idx = @ + 1])
                   ELSE linearInterp(a, block, FALSE, rapidIPM)
              [] block.tag = "go" -> linearInterp(a, block, FALSE, rapidIPM)
              [] block.tag = "line" -> linearInterp(a, block, TRUE, block.f)
              \* n = block['dwell']['n'] subscripts a number
              [] block.tag = "dwell" -> [a EXCEPT !.raised = "TypeError"]

\* GrindAnim.start(stock, wheel, program): reset(), then animateSegment()
start(a, program) ==
    animateSegment([a EXCEPT !.idx = 0, !.startPos = <<>>,
                             !.running = FALSE, !.raised = None,
                             !.program = program, !.started = TRUE])

\* GrindAnim.segmentFinished, the slot of anim.finished
segmentFinished(a) ==
    animateSegment([a EXCEPT !.startPos = a.endPos, !.running = FALSE,
                             !.raised = None])

(***************************************************************************)
(* SpecAnim: SimView.show() starts the animator on a program, and the      *)
(* animation's finished signal drives it on.  SpecAnimLive adds that a     *)
(* running animation segment does finish.                                  *)
(***************************************************************************)
SimBlocks ==
    {Home(0, 2), Go(1, 1, "rapid"), Line(1, 0, 500, "plunge"), Dwell(10000)}
\* what getSimProgram returns for a program that opens with rollerOn: the
\* first record is a home
SimPrograms ==
    {p \in UNION {[1..k -> SimBlocks] : k \in 1..MaxBlocks}
        : p[1].tag = "home"}

InitAnim ==
    /\ orderNumber = reset.orderNumber
    /\ prog = reset.prog
    /\ IdleFrame
    /\ WidgetInit
    /\ PlungeIdle
    /\ KernelIdle
    /\ path = Nothing
    /\ lc = Nothing
    /\ tdef = Nothing
    /\ anim \in {GrindAnimNew(p) : p \in SimPrograms}

AnimUntouched ==
    UNCHANGED <<writerVars, simVars, widgetVars, plungeVars, kernelVars,
                path, lc, tdef>>

\* SimView.show()
Start ==
    /\ ~anim.started
    /\ anim' = start(anim, anim.program)
    /\ AnimUntouched

\* anim.finished is emitted when a running segment reaches its end
SegmentFinished ==
    /\ anim.running
    /\ anim' = segmentFinished(anim)
    /\ AnimUntouched

NextAnim ==
    \/ Start
    \/ SegmentFinished

SpecAnim == InitAnim /\ [][NextAnim]_vars

SpecAnimLive == SpecAnim /\ WF_vars(SegmentFinished)

(***************************************************************************)
(* Properties of the writer and of the replay.                             *)
(***************************************************************************)
Ids(p) == [i \in 1..Len(p) |-> p[i].Id]
Tags(r) == [i \in 1..Len(r) |-> r[i].tag]
OrderOf(i) == ParseInt(prog[i].Order)
Finished == simStatus \notin {"idle", "running"}
NotGo(t) == t # "go"

\* the program [On, RapidIn{RAPID_IN_TO:1}, Axis1{PLUNGE_TO:0.1},
\* Off{NEG_HOME_AXIS1:1.5, NEG_HOME_AXIS2:0.5}], other fields at defaults
IsDemoProg ==
    /\ Len(prog) = 4
    /\ Ids(prog) = <<"On", "RapidIn", "Axis1", "Off">>
    /\ NodeDict(prog[1]) = rollerOnDefaults
    /\ NodeDict(prog[2]) = [rapidInDefaults EXCEPT !.RAPID_IN_TO = 10000]
    /\ NodeDict(prog[3]) = [axisOneDefaults EXCEPT !.PLUNGE_TO = 1000]
    /\ NodeDict(prog[4]) = [rollerOffDefaults EXCEPT !.NEG_HOME_AXIS1 = 15000,
                                                     !.NEG_HOME_AXIS2 = 5000]

\* C1 as stated: replaying the program On, RapidIn{RAPID_IN_TO:1},
\* Axis1{PLUNGE_TO:0.1}, Off built by TTWriter gives exactly the records
\* home, line, line, home.
C1_AsStated ==
    (IsDemoProg /\ Finished) =>
        /\ simStatus = "returned"
        /\ Tags(ret) = <<"home", "line", "line", "home">>

\* C1 amended: the replay of that program returns exactly home, go, go,
\* line, line, go, home: the default AXIS2_BACKLASH makes the RapidIn two
\* rapid (go) records before its line and the default RETURN_TO_NEG adds a
\* retract go after the Axis1 line; without the go records the sequence is
\* home, line, line, home.
C1_DemoRecords ==
    (IsDemoProg /\ Finished) =>
        /\ simStatus = "returned"
        /\ Tags(ret) = <<"home", "go", "go", "line", "line", "go", "home">>
        /\ SelectSeq(Tags(ret), NotGo) = <<"home", "line", "line", "home">>

C1_Witness == IsDemoProg /\ simStatus = "returned" /\ Len(ret) = 7

OnToOff ==
    /\ Len(prog) >= 2
    /\ prog[1].Id = "On"
    /\ prog[Len(prog)].Id = "Off"

\* the home record the final Off move stands for
OffHome ==
    LET d == NodeDict(prog[Len(prog)])
    IN Home(-d.NEG_HOME_AXIS2, d.NEG_HOME_AXIS1 + RoundDiv(blankDia, 2))

HomesBackFilled ==
    /\ simStatus = "returned"
    /\ Len(ret) >= 2
    /\ ret[1] = OffHome
    /\ ret[Len(ret)] = OffHome

ZeroTanAngle(n) ==
    /\ n.Id = "Angle"
    /\ Degrees(NodeDict(n).ANGLE) # 90
    /\ TanMilli(Degrees(NodeDict(n).ANGLE)) = 0

BadOrderAt(i) == i >= 2 /\ OrderOf(i) <= OrderOf(i - 1)

\* whether node i appends a record when the replay gets through it
Emits(i) ==
    \/ prog[i].Id \in {"Axis1", "Axis2In", "Axis2Out", "Back Taper",
                       "RapidIn", "Off", "On", "Angle"}
    \/ prog[i].Id = "Loop Plunge" /\ NodeDict(prog[i]).NUMBER_LOOPS >= 1

\* whether the move at i raises on its own: an Angle with zero tangent, or
\* an Off that finds no opening home record
MoveRaises(i) ==
    \/ ZeroTanAngle(prog[i])
    \/ /\ prog[i].Id = "Off"
       /\ LET before == {j \in 1..(i - 1) : Emits(j)}
          IN \/ before = {}
             \/ \E j \in before :
                   /\ \A k \in before : j <= k
                   /\ prog[j].Id # "On"

C4_OrderNumbering ==
    /\ orderNumber = Len(prog) + 1
    /\ \A k \in 1..Len(prog) :
          /\ OrderOf(k) = k
          /\ ParseInt(prog[k].MOVEINDEX) = k - 1
          /\ (k > 1 => OrderOf(k) > OrderOf(k - 1))
    /\ simStatus # "TTWriterError"

C4_Witness ==
    /\ Len(prog) = 3
    /\ Cardinality({prog[i].Id : i \in 1..3}) = 3
    /\ OrderOf(3) = 3
    /\ simStatus = "returned"

\* a loop iteration that replayed the node at simIdx + 1 without raising
Stepped ==
    /\ simStatus = "running" /\ simStatus' = "running"
    /\ simIdx' = simIdx + 1

\* the records the iteration appended
NewRecords == SubSeq(outProg', Len(outProg) + 1, Len(outProg'))

Called == gpResult # <<>>
ArgSpecs == gpArgs[1]
ArgElements == gpArgs[2]
ArgI == gpArgs[3]
ArgStartZ == gpArgs[4]
Result == gpResult[1]

LineOnly == \A k \in 1..Len(ArgElements) : Len(ArgElements[k]) = 2

\* the grind length: Z of the last element to grind, less startZ
GrindLength ==
    ArgElements[ArgI + 1][1] - (IF ArgStartZ = <<>> THEN 0 ELSE ArgStartZ[1])

\* n = ceil(L / (wheelWidth * wheelOverlap)), the overlap being a percentage
PassesOf(L) ==
    CHOOSE n \in 0..(L + 1) :
        /\ n * ArgSpecs.wheelWidth * ArgSpecs.wheelOverlap >= L * 100
        /\ (n - 1) * ArgSpecs.wheelWidth * ArgSpecs.wheelOverlap < L * 100

\* the probe stations, a uniform step L/n apart
Stations(L, n) ==
    IF ArgStartZ = <<>>
    THEN {RoundDiv(L * k, n) : k \in 1..(n - 1)}
    ELSE {ArgStartZ[1] + RoundDiv(L * k, n) : k \in 0..(n - 1)}

\* the station crosses an edge of the profile that is neither on the shank
\* (both ends at the blank radius) nor vertical
Crosses(z) ==
    \E k \in 1..(Len(ArgElements) - 1) :
        LET a == ArgElements[k]
            b == ArgElements[k + 1]
            br == Half(ArgSpecs.blankDia)
        IN /\ ~(a[2] = br /\ b[2] = br)
           /\ a[1] # b[1]
           /\ (a[1] <= z /\ z <= b[1]) \/ (b[1] <= z /\ z <= a[1])

C8_Case ==
    /\ Called
    /\ LineOnly
    /\ GrindLength > 0
    /\ \A z \in Stations(GrindLength, PassesOf(GrindLength)) : Crosses(z)

\* C8: for a line-only profile whose probe stations all cross a non-shank,
\* non-vertical edge, getPlungePoints returns n - 1 points when startZ is
\* None and n points when startZ is given, n being
\* ceil(L / (wheelWidth * wheelOverlap)) and L the Z of the last element to
\* grind less startZ.
C8_PlungeCount ==
    C8_Case =>
        /\ Result.err = None
        /\ Len(Result.plungePts) =
             PassesOf(GrindLength) - (IF ArgStartZ = <<>> THEN 1 ELSE 0)

\* both forms of the call happen, with more than one pass
C8_Witness ==
    /\ C8_Case
    /\ PassesOf(GrindLength) >= 3
    /\ ArgStartZ # <<>>
    /\ Len(Result.plungePts) = PassesOf(GrindLength)

C8_WitnessNoStartZ ==
    /\ C8_Case
    /\ PassesOf(GrindLength) >= 3
    /\ ArgStartZ = <<>>
    /\ Len(Result.plungePts) = PassesOf(GrindLength) - 1

ArcIndices == {k \in 1..Len(ArgElements) : Len(ArgElements[k]) = 3}

\* C9: when any element of the profile is an arc descriptor, whatever its
\* index, getPlungePoints raises TTPathGenError and returns neither plunge
\* points nor translated elements.
C9_ArcsRaise ==
    (Called /\ ArcIndices # {}) =>
        /\ Result.err = "TTPathGenError"
        /\ Result.plungePts = None
        /\ Result.te = None

\* an arc past the last element to grind, in a call that would otherwise
\* have returned points
C9_Witness ==
    /\ Called
    /\ ArcIndices # {}
    /\ \A k \in ArcIndices : k > ArgI + 1
    /\ ArgStartZ = <<>>
    /\ Result.err = "TTPathGenError"

(***************************************************************************)
(* Properties of the emitted programs.  "Emitted" is the program of the    *)
(* last Write Program or Simulate, when the handler built one.             *)
(***************************************************************************)
Emitted == out.prog # Nothing
EmLen == Len(out.prog)
Em(k) == out.prog[k]

\* a rough plunge: an axis-one move at the plunge feed that returns to the
\* negative position (the finish axis-one moves do not return, and the
\* retract of the neck program runs at 15)
RoughPlunges ==
    {k \in 1..EmLen :
        /\ Em(k).Id = "Axis1"
        /\ Em(k).Variables.RETURN_TO_NEG = 1
        /\ Em(k).Variables.VELOCITY_AXIS1
             = FmtValue("VELOCITY_AXIS1", feeds.plungeFeed)}

\* the moves of the finish pass: all that is neither lifecycle nor part of
\* a rough pass
FinishMoves ==
    {k \in 2..(EmLen - 1) :
        k \notin RoughPlunges /\ (k + 1) \notin RoughPlunges}

\* C6: an emitted program starts with the only roller-on and ends with the
\* only roller-off; every rough axis-one plunge directly follows a rapid-in
\* and precedes every finish move.
C6_ProgramShape ==
    Emitted =>
        /\ EmLen >= 2
        /\ Em(1).Id = "On"
        /\ Em(EmLen).Id = "Off"
        /\ \A k \in 2..(EmLen - 1) : Em(k).Id \notin {"On", "Off"}
        /\ Cardinality(RoughPlunges) = out.rough
        /\ \A k \in RoughPlunges :
             /\ k > 1
             /\ Em(k - 1).Id = "RapidIn"
             /\ \A f \in FinishMoves : k < f
        /\ FinishMoves # {}

\* a neck program with a square shoulder: its finish pass holds an axis-one
\* move too
C6_Witness ==
    /\ Emitted
    /\ grindType = 1
    /\ out.rough >= 2
    /\ \E f \in FinishMoves : Em(f).Id = "Axis1"

\* C7 as the specification has it: every rapid-in of a rough pass but the
\* last one is written with a non-zero AXIS2_BACKLASH.
C7_AsStated ==
    Emitted =>
        \A k \in RoughPlunges :
            (\E j \in RoughPlunges : j > k) =>
                Em(k - 1).Variables.AXIS2_BACKLASH # 0

\* C7: the rapid-in of every rough pass is written with AXIS2_BACKLASH 0,
\* that is without backlash compensation.
C7_RoughNoBacklash ==
    Emitted =>
        \A k \in RoughPlunges :
            /\ Em(k - 1).Id = "RapidIn"
            /\ Em(k - 1).Variables.AXIS2_BACKLASH = 0

C7_Witness ==
    /\ Emitted
    /\ Cardinality(RoughPlunges) >= 2
    /\ grindType # 0
    /\ \A k \in RoughPlunges : Em(k - 1).Variables.AXIS2_BACKLASH = 0

WheelWiderThanNeck ==
    /\ grindType = 1
    /\ toolSpecs.neckLength - toolSpecs.cutLength < grind.wheelWidth

\* C10: while the wheel is wider than the neck, Write Program and Simulate
\* of a neck program compute no plunge points, build no program, write
\* nothing and return no simulation program, and no exception leaves them.
C10_TooWideRejected ==
    WheelWiderThanNeck =>
        /\ out.plunge = Nothing
        /\ out.prog = Nothing
        /\ ~out.wrote
        /\ out.ret = Nothing
        /\ out.raised = None

\* Simulate was pressed with the wheel too wide: the message was shown and
\* the widget stays enabled
C10_Witness ==
    /\ WheelWiderThanNeck
    /\ simChecked
    /\ enabled
    /\ out.msg = "The wheel is too wide for the neck."

(***************************************************************************)
(* Properties of checkGeometry (SpecGeom).                                 *)
(***************************************************************************)
CgCalled == cgResult # <<>>
CgFamily == cgArgs[1]
CgSpecs ==
    mergeDicts(CurrentSpecs(cgArgs[1]), [k \in {cgArgs[2]} |-> cgArgs[3]])
CgOutcome == cgResult[1]

\* C11, as stated: checkGeometry returns True or False and never raises, for
\* every candidate of the six families, zero and negative values of a single
\* field included.  It does not hold: a chamferAngle of 0 (neck, spindown,
\* spindown 2) and a tipAngle of 0 (point) end in ZeroDivisionError.
C11_AsStated ==
    CgCalled => CgOutcome.raised = None /\ CgOutcome.value \in BOOLEAN

\* a zero angle has been passed and the call has raised
C11_Witness ==
    /\ CgCalled
    /\ CgFamily = 1
    /\ CgSpecs.chamferAngle = 0
    /\ CgOutcome.raised = "ZeroDivisionError"

\* C12: for the point tool checkGeometry is true exactly when blankDia > 0,
\* blankLength > 0, 0 < tipAngle < 180 and blankLength > tipLength(tipAngle,
\* blankDia); it returns False for tipAngle >= 180 and when blankLength
\* equals the tip length.
C12_PointFeasible ==
    (CgCalled /\ CgFamily = 0) =>
        LET d == CgSpecs
            true == CgOutcome.raised = None /\ CgOutcome.value
            false == CgOutcome.raised = None /\ ~CgOutcome.value
        IN /\ true <=> (/\ d.blankDia > 0
                        /\ d.blankLength > 0
                        /\ 0 < d.tipAngle
                        /\ d.tipAngle < 180
                        /\ d.blankLength
                             > tipLengthSigned(d.tipAngle, d.blankDia))
           /\ d.tipAngle >= 180 => false
           /\ (/\ d.tipAngle > 0
               /\ d.blankLength = tipLengthSigned(d.tipAngle, d.blankDia))
                  => false

\* the blank of the default point ends exactly where its tip ends, and the
\* call has returned False
C12_Witness ==
    /\ CgCalled
    /\ CgFamily = 0
    /\ CgSpecs.blankDia > 0
    /\ CgSpecs.tipAngle = 118
    /\ CgSpecs.blankLength = tipLengthSigned(118, CgSpecs.blankDia)
    /\ CgOutcome.raised = None
    /\ ~CgOutcome.value

(***************************************************************************)
(* Properties of LinearDim and AngleDim (SpecDim).                         *)
(***************************************************************************)
\* the last call was a config that got as far as _configTwoPoints
TwoPointsCalled ==
    dim.cls = "LinearDim" /\ dim.last = "config" /\ dim.inScene
DimRef1 == dim.specMap.ref1
DimRef2 == dim.specMap.ref2
DimPos == dim.specMap.pos
DimForce == dim.specMap.force
ConfiguredAs(kind) == dim.raised = None /\ dim.configured = kind
RaisedLinear == dim.raised = "LinearDimException"
DiagonalRefs == DimRef1[1] # DimRef2[1] /\ DimRef1[2] # DimRef2[2]
RefRect == NormalizedRect(DimRef1, DimRef2)

\* C13: two distinct point references with equal y give a horizontal
\* dimension for every label position when force is None or 'horizontal',
\* and LinearDimException when force is 'vertical'; with equal x they give a
\* vertical dimension, and LinearDimException when force is 'horizontal'.
C13_AlignedRefs ==
    (TwoPointsCalled /\ DimRef1 # DimRef2) =>
        /\ DimRef1[2] = DimRef2[2] =>
               IF DimForce = "vertical" THEN RaisedLinear
               ELSE ConfiguredAs("horizontal")
        /\ DimRef1[1] = DimRef2[1] =>
               IF DimForce = "horizontal" THEN RaisedLinear
               ELSE ConfiguredAs("vertical")

\* a pair with equal y, forced vertical, has raised
C13_Witness ==
    /\ TwoPointsCalled
    /\ DimRef1 # DimRef2
    /\ DimRef1[2] = DimRef2[2]
    /\ DimForce = "vertical"
    /\ RaisedLinear

C14_Case ==
    /\ TwoPointsCalled
    /\ DimRef1 = <<0, 0>>
    /\ DimRef2 = <<0, 10>>
    /\ DimPos = <<5, 5>>
    /\ DimForce = None

\* C14, as stated: ref1 = (0, 0), ref2 = (0, 10), the label at (5, 5) and no
\* force give a diagonal (parallel) dimension.  It does not hold: the two
\* references have equal x.
C14_AsStated == C14_Case => ConfiguredAs("parallel")

\* C14, amended: ref1 = (0, 0), ref2 = (0, 10), the label at (5, 5) and no
\* force give a vertical dimension.
C14_VerticalPair == C14_Case => ConfiguredAs("vertical")

C14_Witness == C14_Case /\ ConfiguredAs("vertical")

\* the label is directly left or right of the references' rectangle
BesideRect ==
    /\ DimPos[1] < RefRect.left \/ DimPos[1] > RefRect.right
    /\ RefRect.top < DimPos[2] /\ DimPos[2] < RefRect.bottom
\* the label is directly above or below it
AboveOrBelowRect ==
    /\ DimPos[2] < RefRect.top \/ DimPos[2] > RefRect.bottom
    /\ RefRect.left < DimPos[1] /\ DimPos[1] < RefRect.right
\* the label is in a corner region or inside the rectangle
CornerOrInside ==
    \/ /\ DimPos[1] < RefRect.left \/ DimPos[1] > RefRect.right
       /\ DimPos[2] < RefRect.top \/ DimPos[2] > RefRect.bottom
    \/ /\ RefRect.left <= DimPos[1] /\ DimPos[1] <= RefRect.right
       /\ RefRect.top <= DimPos[2] /\ DimPos[2] <= RefRect.bottom

C15_Case == TwoPointsCalled /\ DiagonalRefs /\ DimForce = None

\* C15, as stated: for diagonal references and no force, a label directly
\* left or right of the rectangle gives a horizontal dimension, one directly
\* above or below a vertical dimension, one in a corner or inside a parallel
\* dimension.  It does not hold: the two orientations are the other way
\* round.
C15_AsStated ==
    C15_Case =>
        /\ BesideRect => ConfiguredAs("horizontal")
        /\ AboveOrBelowRect => ConfiguredAs("vertical")
        /\ CornerOrInside => ConfiguredAs("parallel")

\* C15, amended: for diagonal references and no force, a label directly left
\* or right of the rectangle gives a vertical dimension, one directly above
\* or below a horizontal dimension, one in a corner or inside a parallel
\* dimension.
C15_SidesVertical ==
    C15_Case =>
        /\ BesideRect => ConfiguredAs("vertical")
        /\ AboveOrBelowRect => ConfiguredAs("horizontal")
        /\ CornerOrInside => ConfiguredAs("parallel")

\* a label above or below diagonal references has given a horizontal
\* dimension
C15_Witness == C15_Case /\ AboveOrBelowRect /\ ConfiguredAs("horizontal")

\* the label is on none of the four lines of the 3x3 grid
OffGrid ==
    /\ DimPos[1] \notin {RefRect.left, RefRect.right}
    /\ DimPos[2] \notin {RefRect.top, RefRect.bottom}
\* the section of the label, 1..9 row by row from the top left
Section ==
    LET col == IF DimPos[1] < RefRect.left THEN 1
               ELSE IF DimPos[1] < RefRect.right THEN 2 ELSE 3
        row == IF DimPos[2] < RefRect.top THEN 1
               ELSE IF DimPos[2] < RefRect.bottom THEN 2 ELSE 3
    IN 3 * (row - 1) + col

\* C16: for diagonal references and no force, a label in section 4 or 6 of
\* the 3x3 grid gives a vertical dimension, in section 2 or 8 a horizontal
\* one, in section 1, 3, 5, 7 or 9 a parallel one.
C16_GridSections ==
    (TwoPointsCalled /\ DiagonalRefs /\ DimForce = None /\ OffGrid) =>
        /\ Section \in {4, 6} => ConfiguredAs("vertical")
        /\ Section \in {2, 8} => ConfiguredAs("horizontal")
        /\ Section \in {1, 3, 5, 7, 9} => ConfiguredAs("parallel")

\* a label inside the rectangle (section 5) has given a parallel dimension
C16_Witness ==
    /\ TwoPointsCalled
    /\ DiagonalRefs
    /\ DimForce = None
    /\ OffGrid
    /\ Section = 5
    /\ ConfiguredAs("parallel")

\* C17, as stated: configuring a linear dimension whose two point references
\* are identical raises LinearDimException for every label position, every
\* force and every attachment state.  It does not hold: outside a scene
\* config returns after Dimension.config, before the references are looked
\* at.
C17_AsStated ==
    (dim.cls = "LinearDim" /\ dim.last = "config" /\ DimRef1 = DimRef2)
        => RaisedLinear

\* identical references have been configured outside a scene without an
\* exception
C17_Witness ==
    /\ dim.cls = "LinearDim"
    /\ dim.last = "config"
    /\ ~dim.inScene
    /\ DimRef1 = DimRef2
    /\ dim.raised = None

\* C18, as stated: when LinearDim.config or AngleDim.config raises for
\* invalid reference geometry, the stored specMap and the label's text and
\* position are what they were before the call.  It does not hold:
\* Dimension.config has updated both before the references are validated.
C18_AsStated ==
    [][(/\ dim'.last = "config"
        /\ dim'.raised \in {"LinearDimException", "AngleDimException"})
           => (dim'.specMap = dim.specMap /\ dim'.dimText = dim.dimText)]_vars

\* a config has raised for its references and the label is no longer where
\* the constructor put it
C18_Witness ==
    /\ dim.last = "config"
    /\ dim.raised \in {"LinearDimException", "AngleDimException"}
    /\ dim.dimText.pos # <<0, 0>>
    /\ dim.dimText.pos # <<1, 1>>

(***************************************************************************)
(* Properties of Arc (SpecArc).                                            *)
(***************************************************************************)
FromAnglesReturned == arc.call.op = "fromAngles" /\ arc.raised = None

\* C19, as stated: for every radius r > 0 and angles a1 # a2, pairs a whole
\* number of turns apart included, Arc.fromAngles(a1, a2, r, cclw=True) has
\* span > 0, with cclw=False span < 0, and abs(span) <= 360.  It does not
\* hold: two angles a whole turn apart give span 0.
C19_AsStated ==
    (/\ FromAnglesReturned
     /\ arc.call.args[3] > 0
     /\ arc.call.args[1] # arc.call.args[2]) =>
        /\ arc.call.args[4] => arc.m.span > 0
        /\ ~arc.call.args[4] => arc.m.span < 0
        /\ Abs(arc.m.span) <= 360

\* fromAngles has returned an arc of span 0 for two different angles
C19_Witness ==
    /\ FromAnglesReturned
    /\ arc.call.args[3] > 0
    /\ arc.call.args[1] # arc.call.args[2]
    /\ arc.m.span = 0

\* C20, as stated: after any sequence of Arc construction, config() and
\* radius(value) calls, those that raise ArcException included, the stored
\* radius is > 0.  It does not hold: radius(value) stores a negative value
\* and config stores the radius before it tests it.
C20_AsStated == "radius" \in DOMAIN arc.m => arc.m.radius > 0

\* a config that raised ArcException has left a radius <= 0 behind
C20_Witness ==
    /\ arc.call.op = "config"
    /\ arc.raised = "ArcException"
    /\ arc.m.radius <= 0

(***************************************************************************)
(* Properties of Path2d.                                                   *)
(***************************************************************************)
\* C21: lineTo and arcTo called on a path with no elements raise
\* Path2dException and leave the path empty; called on a path with at
\* least one element they never raise.
C21_EmptyPathRaises ==
    [][path'.op \in {"lineTo", "arcTo"} =>
          IF Len(path.elements) = 0
          THEN path'.raised = Path2dException /\ Len(path'.elements) = 0
          ELSE path'.raised = None]_vars

\* lineTo has just raised on a path built without a start point
C21_Witness ==
    /\ path.op = "lineTo"
    /\ path.raised = Path2dException
    /\ Len(path.elements) = 0

PathMethods == {"lineTo", "arcTo", "elements", "endPoints", "toQPainterPath"}

\* C22: moveTo leaves exactly the one element [x, y]; lineTo and arcTo on a
\* non-empty path add exactly one element behind the earlier ones, which
\* stay as they were; no method other than moveTo removes or rewrites an
\* element.
C22_AppendOnly ==
    [][/\ path'.op = "moveTo" => path'.elements = <<path'.args>>
       /\ path'.op \in {"lineTo", "arcTo"} /\ Len(path.elements) > 0 =>
              /\ Len(path'.elements) = Len(path.elements) + 1
              /\ SubSeq(path'.elements, 1, Len(path.elements))
                     = path.elements
       /\ path'.op \in PathMethods =>
              /\ Len(path'.elements) >= Len(path.elements)
              /\ SubSeq(path'.elements, 1, Len(path.elements))
                     = path.elements]_vars

\* an arc has just been appended behind two earlier elements
C22_Witness ==
    /\ path.op = "arcTo"
    /\ path.raised = None
    /\ Len(path.elements) = 3

\* C23: elements() and endPoints() hand out deep copies: writing into a
\* list either of them returned, at any depth, never changes what the path
\* reports from elements() or endPoints().
C23_AsStated ==
    [][path'.op \in MutOps =>
          /\ elements(path'.elements).ret = elements(path.elements).ret
          /\ endPoints(path'.elements).ret = endPoints(path.elements).ret]_vars

\* the caller has just written a coordinate into a point that the list
\* handed out by endPoints() shares with the path
C23_Witness ==
    /\ path.op = "setCoord"
    /\ path.refs[path.args[1]] # 0

\* the arc elements of a path, and for element k the angles, the radius and
\* the place of its arcTo call in the painter path
ArcElements(els) == {k \in 2..Len(els) : Len(els[k]) = 3}
StartAngle(els, k) ==
    Atan2Deg(endPoints(els).ret[k - 1][2] - els[k][2][2],
             endPoints(els).ret[k - 1][1] - els[k][2][1])
EndAngle(els, k) ==
    Atan2Deg(els[k][1][2] - els[k][2][2], els[k][1][1] - els[k][2][1])
ArcRadiusOf(els, k) ==
    Hypot(els[k][1][1] - els[k][2][1], els[k][1][2] - els[k][2][2])
ArcToIndex(els, k) ==
    (IF Len(els[2]) = 2 THEN 1 ELSE 0) + (k - 1)
        + Cardinality({i \in 2..k : Len(els[i]) = 3})
Painted == path.op = "toQPainterPath" /\ path.raised = None

\* C25: for every arc element the signed span toQPainterPath hands to
\* arcTo equals the span of Arc.fromAngles for the same start angle, end
\* angle and direction, also when the two angles coincide.
C25_AsStated ==
    Painted =>
        \A k \in ArcElements(path.elements) :
            ArcRadiusOf(path.elements, k) > 0 =>
                path.ret[ArcToIndex(path.elements, k)][4]
                    = fromAngles(ArcDefaults,
                                 StartAngle(path.elements, k),
                                 EndAngle(path.elements, k),
                                 10 * ArcRadiusOf(path.elements, k),
                                 path.elements[k][3] = "cclw").m.span

\* a painted path with an arc that ends where it starts
C25_Witness ==
    /\ Painted
    /\ \E k \in ArcElements(path.elements) :
           /\ ArcRadiusOf(path.elements, k) > 0
           /\ StartAngle(path.elements, k) = EndAngle(path.elements, k)

(***************************************************************************)
(* Properties of linesCollinear.                                           *)
(***************************************************************************)
EndPointsOf(l) == {<<l[1], l[2]>>, <<l[3], l[4]>>}
OnOneLine(S) ==
    \A p \in S, q \in S, r \in S :
        (q[1] - p[1]) * (r[2] - p[2]) = (q[2] - p[2]) * (r[1] - p[1])

\* C24: linesCollinear(l1, l2) is true exactly when all four end points of
\* the two segments lie on one straight line.
C24_AsStated ==
    lc.result # <<>> =>
        (lc.result[1] <=> OnOneLine(EndPointsOf(lc.l1) \cup EndPointsOf(lc.l2)))

\* a call that answered true although the second end point of l2 is off
\* the line through the other three
C24_Witness ==
    /\ lc.result = <<TRUE>>
    /\ lc.l1[1] # lc.l1[3]
    /\ OnOneLine(EndPointsOf(lc.l1) \cup {<<lc.l2[1], lc.l2[2]>>})
    /\ ~OnOneLine(EndPointsOf(lc.l1) \cup EndPointsOf(lc.l2))

(***************************************************************************)
(* Properties of TTToolDef.                                                *)
(***************************************************************************)
ConfigCalled == tdef.op = "config"
SameValues(t, specs) == \A k \in DOMAIN specs : t.specs[k] = specs[k]

RapidIns == {k \in 1..EmLen : Em(k).Id = "RapidIn"}
LastRapidIn == CHOOSE k \in RapidIns : \A j \in RapidIns : j <= k
Seg1Text(id) == FmtValue(id, feeds.seg1Feed)

\* C27: in every family's program the move that follows the last rapid-in
\* is fed at seg1Feed, be it an angle move (chamfer angle below 90) or an
\* axis-one plunge (chamfer angle of 90).
C27_AsStated ==
    (Emitted /\ RapidIns # {}) =>
        /\ LastRapidIn < EmLen
        /\ Em(LastRapidIn + 1).Id \in {"Angle", "Axis1"}
        /\ Em(LastRapidIn + 1).Id = "Angle" =>
               Em(LastRapidIn + 1).Variables.TAPER_VELOCITY
                   = Seg1Text("TAPER_VELOCITY")
        /\ Em(LastRapidIn + 1).Id = "Axis1" =>
               Em(LastRapidIn + 1).Variables.VELOCITY_AXIS1
                   = Seg1Text("VELOCITY_AXIS1")

\* a taper 2 program with a square shoulder, written with a finish feed
\* that is not the default of axisOne
C27_Witness ==
    /\ Emitted
    /\ grindType = 5
    /\ toolSpecs.chamferAngle = 90
    /\ feeds.seg1Feed # axisOneDefaults.VELOCITY_AXIS1
    /\ Em(LastRapidIn + 1).Id = "Axis1"

\* C28: in every family's program the last rapid-in, the one that places
\* the wheel for the finish pass, is written with a non-zero
\* AXIS2_BACKLASH, whatever the number of rough passes.
C28_AsStated ==
    (Emitted /\ RapidIns # {}) =>
        Em(LastRapidIn).Variables.AXIS2_BACKLASH # 0

\* a point program of more than one pass
C28_Witness ==
    /\ Emitted
    /\ grindType = 0
    /\ Cardinality(RapidIns) >= 2
    /\ Em(LastRapidIn + 1).Id = "Angle"

NeckAccepted ==
    /\ grindType = 1
    /\ invalidEdit = "none"
    /\ NeckCheckGeometry(toolSpecs) = CgReturn(TRUE)
    /\ toolSpecs.neckLength - toolSpecs.cutLength >= grind.wheelWidth

\* C29: for every neck spec that checkGeometry accepts and every wheel
\* width that passes the wheel-too-wide guard, writeNeckProg completes and
\* emits a program: getPlungePoints does not raise.
C29_AsStated ==
    (NeckAccepted /\ out # NoOutcome) => (out.raised = None /\ Emitted)

\* Write Program of a neck with a square shoulder and a wheel as wide as
\* the neck
C29_Witness ==
    /\ NeckAccepted
    /\ out # NoOutcome
    /\ toolSpecs.chamferAngle = 90
    /\ toolSpecs.neckLength - toolSpecs.cutLength = grind.wheelWidth

(***************************************************************************)
(* Properties of GrindAnim (SpecAnimLive).                                 *)
(***************************************************************************)
AtEnd == anim.idx = Len(anim.program)

\* C30: after start(), every started segment finishing in the end, every
\* block of a program of home, go, line and dwell records is consumed in
\* program order, and the animator stops advancing only when its block
\* index has reached the end of the program.
C30_AsStated ==
    /\ anim.started ~> AtEnd
    /\ [](anim.started /\ ~anim.running => AtEnd)
    /\ [][anim.started =>
              anim'.idx \in anim.idx..Len(anim.program)]_vars

\* the animator has stopped at a dwell block with blocks left to play
C30_Witness ==
    /\ anim.started
    /\ ~anim.running
    /\ anim.idx > 0
    /\ anim.idx + 1 < Len(anim.program)
    /\ anim.program[1].tag = "home"
    /\ anim.program[anim.idx + 1].tag = "dwell"

=============================================================================
